---- MODULE Spec2Model ----
(***************************************************************************)
(* Cross-file validation of a Rasa project (rasa-pro-vscode).             *)
(*                                                                         *)
(* The project service caches the project's files and sorts them into     *)
(* buckets by path; one validation pass parses the domain, NLU, stories   *)
(* and rules files one after the other, aggregates definitions and        *)
(* references into a ProjectData, evaluates the detection rules and       *)
(* groups the issues by file.  The diagnostic provider debounces the file  *)
(* system signals, starts the passes and publishes their results; the      *)
(* completion provider keeps a cache of the parsed domain files.           *)
(***************************************************************************)
EXTENDS Integers, Sequences, FiniteSets, TLC

VARIABLES
  projectFiles,             \* RasaProjectService.projectFiles: relative paths, in insertion order
  isRasaProjectDetected,    \* RasaProjectService.isRasaProjectDetected
  disk,                     \* fsPath -> what YamlParserService.parseFile returns for the file now
  edits,                    \* number of authoring edits made so far
  pc,                       \* where validateProject() is: idle, domain, nlu, stories, rules, evaluating, routing, routed
  files,                    \* the file list the running parse loop iterates
  idx,                      \* index in files of the file whose parse is awaited
  data,                     \* the pass's ProjectData
  issues,                   \* the list detectIssues returned
  issuesByFile,             \* the map validateProject() returns
  delivered,                \* the map of the last finished pass, while the caller that awaited it holds it
  enableDiagnostics,        \* the setting rasa-pro-vscode.enableDiagnostics
  crossFileValidationTimer, \* RasaDiagnosticProvider.crossFileValidationTimer
  sinceSignal,              \* time since the last file system signal, in ms, counted up to the quiet interval
  passesSinceSignal,        \* runCrossFileValidation() calls since the last file system signal
  runs,                     \* the runCrossFileValidation() calls in flight, each with its validateProject() pass
  diagnosticCollection,     \* RasaDiagnosticProvider.diagnosticCollection: fsPath -> diagnostics
  domainCache,              \* RasaCompletionProvider.domainCache: fsPath -> parsed domain
  lastCacheUpdate,          \* RasaCompletionProvider.lastCacheUpdate
  now,                      \* Date.now(), in ms
  requests                  \* the provideCompletionItems() calls: where each is, and what it returned

providerVars ==
  <<enableDiagnostics, crossFileValidationTimer, sinceSignal, passesSinceSignal, runs, diagnosticCollection>>

completionVars == <<domainCache, lastCacheUpdate, now, requests>>

vars ==
  <<projectFiles, isRasaProjectDetected, disk, edits, pc, files, idx, data, issues, issuesByFile, delivered,
    providerVars, completionVars>>

-----------------------------------------------------------------------------
(* Bounds of the model *)

MaxEdits == 3

\* The longest file list handed to parseDomainFiles on its own.
MaxListLen == 3

-----------------------------------------------------------------------------
(* JavaScript values as yaml.load produces them.  An object is modelled by *)
(* the list of its keys (Object.keys order), which is all the code reads.  *)

Undefined == [t |-> "undefined"]
Null == [t |-> "null"]
Str(s) == [t |-> "string", v |-> s]
Num(n) == [t |-> "number", v |-> n]
Obj(keys) == [t |-> "object", keys |-> keys]
Arr(items) == [t |-> "array", items |-> items]

\* An object whose values are read too: values[i] is the value of keys[i].
ObjOf(keys, values) == [t |-> "object", keys |-> keys, values |-> values]

\* JavaScript truthiness (`if (x)`, `.filter(Boolean)`, `a || b`).
Truthy(v) ==
  /\ v.t \notin {"undefined", "null"}
  /\ ~(v.t = "string" /\ v.v = "")
  /\ ~(v.t = "number" /\ v.v = 0)

\* `typeof v`: null and arrays are objects.
TypeOf(v) ==
  CASE v.t = "undefined" -> "undefined"
    [] v.t = "string" -> "string"
    [] v.t = "number" -> "number"
    [] OTHER -> "object"

\* Template-literal conversion `${v}` of the values the model holds.
jsString(v) ==
  CASE v.t = "string" -> v.v
    [] v.t = "null" -> "null"
    [] v.t = "undefined" -> "undefined"
    [] v.t = "array" -> ""
    [] v.t = "number" -> ToString(v.v)
    [] OTHER -> "[object Object]"

\* String.prototype.startsWith and String.prototype.includes.
startsWith(s, p) == Len(s) >= Len(p) /\ SubSeq(s, 1, Len(p)) = p
includes(s, p) == \E i \in 1..(Len(s) - Len(p) + 1) : SubSeq(s, i, i + Len(p) - 1) = p

-----------------------------------------------------------------------------
(* JavaScript Set and Map.  A Set is the list of its members in insertion  *)
(* order; a Map<string, string[]> is a function on its keys.               *)

Has(s, x) == \E i \in 1..Len(s) : s[i] = x
SetAdd(s, x) == IF Has(s, x) THEN s ELSE Append(s, x)

RECURSIVE SetAddAll(_, _)
SetAddAll(s, xs) == IF xs = <<>> THEN s ELSE SetAddAll(SetAdd(s, Head(xs)), Tail(xs))

\* new Set([...a, ...b])
SetUnion(a, b) == SetAddAll(SetAddAll(<<>>, a), b)

Members(s) == {s[i] : i \in 1..Len(s)}

EmptyMap == [k \in {} |-> <<>>]
MapHas(m, k) == k \in DOMAIN m

\* A map.set(key, [value]) in place of the push: the last file replaces the others.
addToMap_Overwrite(m, key, value) ==
  [k \in DOMAIN m \cup {key} |-> IF k = key THEN <<value>> ELSE m[k]]

addToMap(m, key, value) ==
  [k \in DOMAIN m \cup {key} |-> IF k \in DOMAIN m THEN (IF k = key THEN Append(m[k], value) ELSE m[k])
                                 ELSE <<value>>]

-----------------------------------------------------------------------------
(* RasaProjectService: the file cache and its buckets *)

WorkspaceRoot == "/ws"

\* vscode.Uri.file(path.join(workspaceRoot, relativePath)).fsPath
fsPath(relativePath) == WorkspaceRoot \o "/" \o relativePath

RECURSIVE SelectPaths(_, _)
SelectPaths(paths, type) ==
  IF paths = <<>> THEN <<>>
  ELSE LET relativePath == Head(paths)
           rest == SelectPaths(Tail(paths), type)
           hit == CASE type = "domain" -> startsWith(relativePath, "domain") \/ relativePath = "domain.yml"
                    [] type = "nlu" -> includes(relativePath, "nlu") \/ relativePath = "nlu.yml"
                    [] type = "stories" -> includes(relativePath, "stories") \/ relativePath = "stories.yml"
                    [] type = "rules" -> includes(relativePath, "rules") \/ relativePath = "rules.yml"
                    [] OTHER -> FALSE
       IN IF hit THEN <<fsPath(relativePath)>> \o rest ELSE rest

getFilesByType(cache, type) == SelectPaths(cache, type)
getDomainFiles(cache) == getFilesByType(cache, "domain")
getNLUFiles(cache) == getFilesByType(cache, "nlu")
getStoriesFiles(cache) == getFilesByType(cache, "stories")
getRulesFiles(cache) == getFilesByType(cache, "rules")

-----------------------------------------------------------------------------
(* YamlParserService.  A parsed document is the top-level mapping of the   *)
(* file; every parse function returns the same tree, typed differently.    *)

EmptyDoc ==
  [t |-> "object", intents |-> Undefined, entities |-> Undefined, slots |-> Undefined,
   responses |-> Undefined, actions |-> Undefined, forms |-> Undefined,
   nlu |-> Undefined, stories |-> Undefined, rules |-> Undefined]

ParseOk(doc) == [success |-> TRUE, data |-> doc]
ParseFailed == [success |-> FALSE, data |-> Undefined]

parseFile(filePath) == disk[filePath]

\* Object.keys(entry)[0] || ""
FirstKeyOrEmpty(entry) == IF Len(entry.keys) > 0 THEN entry.keys[1] ELSE ""

\* One entry of `intents:` / `entities:` as the map callback names it.
EntryName(entry) ==
  IF TypeOf(entry) = "string" THEN entry.v
  ELSE IF TypeOf(entry) = "object" THEN FirstKeyOrEmpty(entry)
  ELSE ""

\* entries.map(EntryName).filter(Boolean)
RECURSIVE EntryNames(_)
EntryNames(entries) ==
  IF entries = <<>> THEN <<>>
  ELSE LET name == EntryName(Head(entries))
       IN IF name # "" THEN <<Str(name)>> \o EntryNames(Tail(entries)) ELSE EntryNames(Tail(entries))

RECURSIVE StrAll(_)
StrAll(keys) == IF keys = <<>> THEN <<>> ELSE <<Str(Head(keys))>> \o StrAll(Tail(keys))

\* Object.keys(obj) as JavaScript strings
ObjectKeys(obj) == StrAll(obj.keys)

extractIntents(domain) == IF ~Truthy(domain.intents) THEN <<>> ELSE EntryNames(domain.intents.items)
extractEntities(domain) == IF ~Truthy(domain.entities) THEN <<>> ELSE EntryNames(domain.entities.items)
extractSlots(domain) == IF ~Truthy(domain.slots) THEN <<>> ELSE ObjectKeys(domain.slots)
extractResponses(domain) == IF ~Truthy(domain.responses) THEN <<>> ELSE ObjectKeys(domain.responses)
extractActions(domain) == IF Truthy(domain.actions) THEN domain.actions.items ELSE <<>>
extractForms(domain) == IF ~Truthy(domain.forms) THEN <<>> ELSE ObjectKeys(domain.forms)

-----------------------------------------------------------------------------
(* CrossFileValidationService: aggregation *)

NewProjectData ==
  [intents |-> <<>>, entities |-> <<>>, slots |-> <<>>, responses |-> <<>>, actions |-> <<>>, forms |-> <<>>,
   nluIntents |-> <<>>,
   storyIntents |-> <<>>, storyActions |-> <<>>, storySlots |-> <<>>, storyForms |-> <<>>,
   ruleIntents |-> <<>>, ruleActions |-> <<>>, ruleSlots |-> <<>>, ruleForms |-> <<>>,
   intentFiles |-> EmptyMap, actionFiles |-> EmptyMap, responseFiles |-> EmptyMap,
   slotFiles |-> EmptyMap, entityFiles |-> EmptyMap,
   thrown |-> FALSE]   \* not a field of ProjectData: a TypeError is on its way to the enclosing catch

\* The loop recording a file only for a name no earlier file declared.
RECURSIVE AddDefinitions_FirstFile(_, _, _, _, _)
AddDefinitions_FirstFile(d, names, setField, mapField, path) ==
  IF names = <<>> THEN d
  ELSE AddDefinitions_FirstFile([d EXCEPT ![setField] = SetAdd(@, Head(names)),
                                          ![mapField] = IF MapHas(@, Head(names)) THEN @
                                                        ELSE addToMap(@, Head(names), path)],
                                Tail(names), setField, mapField, path)

\* names.forEach((n) => { data[setField].add(n); this.addToMap(data[mapField], n, path) })
RECURSIVE AddDefinitions(_, _, _, _, _)
AddDefinitions(d, names, setField, mapField, path) ==
  IF names = <<>> THEN d
  ELSE AddDefinitions([d EXCEPT ![setField] = SetAdd(@, Head(names)),
                                ![mapField] = addToMap(@, Head(names), path)],
                      Tail(names), setField, mapField, path)

\* The loop body filling a catalog of its own for every file: the last file's names stay.
parseDomainFile_Replace(d, path) ==
  LET result == parseFile(path) IN
  IF result.success /\ Truthy(result.data) THEN
    LET domain == result.data
        d1 == AddDefinitions(NewProjectData, extractIntents(domain), "intents", "intentFiles", path)
        d2 == AddDefinitions(d1, extractEntities(domain), "entities", "entityFiles", path)
        d3 == AddDefinitions(d2, extractSlots(domain), "slots", "slotFiles", path)
        d4 == AddDefinitions(d3, extractResponses(domain), "responses", "responseFiles", path)
        d5 == AddDefinitions(d4, extractActions(domain), "actions", "actionFiles", path)
    IN [d5 EXCEPT !.forms = SetAddAll(@, extractForms(domain))]
  ELSE d

\* The body of parseDomainFiles' loop for one file.
parseDomainFile(d, path) ==
  LET result == parseFile(path) IN
  IF result.success /\ Truthy(result.data) THEN
    LET domain == result.data
        d1 == AddDefinitions(d, extractIntents(domain), "intents", "intentFiles", path)
        d2 == AddDefinitions(d1, extractEntities(domain), "entities", "entityFiles", path)
        d3 == AddDefinitions(d2, extractSlots(domain), "slots", "slotFiles", path)
        d4 == AddDefinitions(d3, extractResponses(domain), "responses", "responseFiles", path)
        d5 == AddDefinitions(d4, extractActions(domain), "actions", "actionFiles", path)
    IN [d5 EXCEPT !.forms = SetAddAll(@, extractForms(domain))]
  ELSE d

\* parseDomainFiles over the list getDomainFiles() returned.
RECURSIVE parseDomainFiles(_, _)
parseDomainFiles(d, domainFiles) ==
  IF domainFiles = <<>> THEN d ELSE parseDomainFiles(parseDomainFile(d, Head(domainFiles)), Tail(domainFiles))

\* nlu.nlu.forEach((item) => { if (item.intent) data.nluIntents.add(item.intent) })
RECURSIVE AddNLUItems(_, _)
AddNLUItems(s, items) ==
  IF items = <<>> THEN s
  ELSE AddNLUItems(IF Truthy(Head(items).intent) THEN SetAdd(s, Head(items).intent) ELSE s, Tail(items))

\* The body of parseNLUFiles' loop for one file.
parseNLUFile(d, path) ==
  LET result == parseFile(path) IN
  IF result.success /\ Truthy(result.data) THEN
    LET nlu == result.data
    IN IF Truthy(nlu.nlu) THEN [d EXCEPT !.nluIntents = AddNLUItems(@, nlu.nlu.items)] ELSE d
  ELSE d

\* The list read as one mapping: only its first entry's keys are taken.
RECURSIVE AddSlotList_FirstOnly(_, _)
AddSlotList_FirstOnly(s, slots) ==
  IF slots = <<>> THEN s
  ELSE IF TypeOf(Head(slots)) = "object" THEN SetAddAll(s, ObjectKeys(Head(slots))) ELSE s

\* step.slot_was_set.forEach((slot) => { if (typeof slot === "object") Object.keys(slot).forEach(add) })
RECURSIVE AddSlotList(_, _)
AddSlotList(s, slots) ==
  IF slots = <<>> THEN s
  ELSE AddSlotList(IF TypeOf(Head(slots)) = "object" THEN SetAddAll(s, ObjectKeys(Head(slots))) ELSE s,
                   Tail(slots))

\* Object.keys(slot) throws a TypeError for a null entry of the list: `typeof null` is "object".
SlotEntryThrows(slot) == slot = Null

\* The index of the first entry of the list at which the callback throws, 0 when it never does.
FirstThrowing(slots) ==
  IF \E i \in 1..Len(slots) : SlotEntryThrows(slots[i])
  THEN CHOOSE i \in 1..Len(slots) :
         SlotEntryThrows(slots[i]) /\ \A j \in 1..(i - 1) : ~SlotEntryThrows(slots[j])
  ELSE 0

\* The slot_was_set part of the callback; the entries before one that throws are kept.
SlotReferences(d, v, slotsSet) ==
  IF Truthy(v)
  THEN IF v.t = "array"
       THEN LET k == FirstThrowing(v.items) IN
            IF k = 0 THEN [d EXCEPT ![slotsSet] = AddSlotList(@, v.items)]
            ELSE [d EXCEPT ![slotsSet] = AddSlotList(@, SubSeq(v.items, 1, k - 1)), !.thrown = TRUE]
       ELSE IF TypeOf(v) = "object"
            THEN [d EXCEPT ![slotsSet] = SetAddAll(@, ObjectKeys(v))]
            ELSE d
  ELSE d

\* The callback recording active_loop whenever the step has the field.
StepReferences_AnyLoop(d, step, type) ==
  IF d.thrown THEN d
  ELSE IF step = Null THEN [d EXCEPT !.thrown = TRUE]
  ELSE
  LET intentsSet == IF type = "story" THEN "storyIntents" ELSE "ruleIntents"
      actionsSet == IF type = "story" THEN "storyActions" ELSE "ruleActions"
      slotsSet == IF type = "story" THEN "storySlots" ELSE "ruleSlots"
      formsSet == IF type = "story" THEN "storyForms" ELSE "ruleForms"
      d1 == IF Truthy(step.intent) THEN [d EXCEPT ![intentsSet] = SetAdd(@, step.intent)] ELSE d
      d2 == IF Truthy(step.action) THEN [d1 EXCEPT ![actionsSet] = SetAdd(@, step.action)] ELSE d1
      d3 == IF step.active_loop # Undefined
            THEN [d2 EXCEPT ![formsSet] = SetAdd(@, step.active_loop)] ELSE d2
  IN SlotReferences(d3, step.slot_was_set, slotsSet)

\* The forEach callback of extractStepReferences for one step.  Once a callback has
\* thrown no later one runs; reading `step.intent` of a null step throws a TypeError.
StepReferences(d, step, type) ==
  IF d.thrown THEN d
  ELSE IF step = Null THEN [d EXCEPT !.thrown = TRUE]
  ELSE
  LET intentsSet == IF type = "story" THEN "storyIntents" ELSE "ruleIntents"
      actionsSet == IF type = "story" THEN "storyActions" ELSE "ruleActions"
      slotsSet == IF type = "story" THEN "storySlots" ELSE "ruleSlots"
      formsSet == IF type = "story" THEN "storyForms" ELSE "ruleForms"
      d1 == IF Truthy(step.intent) THEN [d EXCEPT ![intentsSet] = SetAdd(@, step.intent)] ELSE d
      d2 == IF Truthy(step.action) THEN [d1 EXCEPT ![actionsSet] = SetAdd(@, step.action)] ELSE d1
      d3 == IF Truthy(step.active_loop) /\ step.active_loop # Null
            THEN [d2 EXCEPT ![formsSet] = SetAdd(@, step.active_loop)] ELSE d2
  IN SlotReferences(d3, step.slot_was_set, slotsSet)

RECURSIVE extractStepReferences(_, _, _)
extractStepReferences(steps, d, type) ==
  IF steps = <<>> THEN d
  ELSE extractStepReferences(Tail(steps), StepReferences(d, Head(steps), type), type)

\* flows.forEach((flow) => { if (flow.steps) this.extractStepReferences(flow.steps, data, type) })
RECURSIVE ExtractFlows(_, _, _)
ExtractFlows(flows, d, type) ==
  IF flows = <<>> THEN d
  ELSE ExtractFlows(Tail(flows),
                    IF Truthy(Head(flows).steps)
                    THEN extractStepReferences(Head(flows).steps.items, d, type) ELSE d,
                    type)

\* The catch of a parse loop's body: the error is logged and the loop goes on to the next file.
Catch(d) == [d EXCEPT !.thrown = FALSE]

\* The body of parseStoriesFiles' loop for one file.
parseStoriesFile(d, path) ==
  LET result == parseFile(path) IN
  IF result.success /\ Truthy(result.data) THEN
    LET stories == result.data
    IN IF Truthy(stories.stories) THEN Catch(ExtractFlows(stories.stories.items, d, "story")) ELSE d
  ELSE d

\* The loop body giving the whole aggregation up when the file does not parse.
parseRulesFile_Abort(d, path) ==
  LET result == parseFile(path) IN
  IF result.success /\ Truthy(result.data) THEN
    LET rules == result.data
    IN IF Truthy(rules.rules) THEN Catch(ExtractFlows(rules.rules.items, d, "rule")) ELSE d
  ELSE NewProjectData

\* The body of parseRulesFiles' loop for one file.
parseRulesFile(d, path) ==
  LET result == parseFile(path) IN
  IF result.success /\ Truthy(result.data) THEN
    LET rules == result.data
    IN IF Truthy(rules.rules) THEN Catch(ExtractFlows(rules.rules.items, d, "rule")) ELSE d
  ELSE d


-----------------------------------------------------------------------------
(* CrossFileValidationService: the detection rules *)

\* The members of CrossFileIssue.type.
IssueTypes ==
  {"undefined-intent", "undefined-entity", "undefined-action", "undefined-slot", "undefined-response",
   "unused-intent", "unused-entity", "unused-slot", "unused-response"}

builtInActions ==
  <<"action_listen", "action_restart", "action_session_start", "action_default_fallback",
    "action_deactivate_loop", "action_revert_fallback_events", "action_default_ask_affirmation",
    "action_default_ask_rephrase", "action_back", "action_unlikely_intent">>

\* The allowlist short of its last name.
isBuiltInAction_Short(action) ==
  action.t = "string" /\ Has(SubSeq(builtInActions, 1, Len(builtInActions) - 1), action.v)

\* builtInActions.includes(action): strict equality with a string of the list
isBuiltInAction(action) == action.t = "string" /\ Has(builtInActions, action.v)

\* An issue without definedIn (the undefined-* rules set neither referencedIn nor definedIn).
Issue(type, message, severity, itemName) ==
  [type |-> type, message |-> message, severity |-> severity, itemName |-> itemName]

\* An issue with definedIn: `map.get(name) || []`.
IssueDefinedIn(type, message, severity, itemName, map) ==
  [type |-> type, message |-> message, severity |-> severity, itemName |-> itemName,
   definedIn |-> IF MapHas(map, itemName) THEN map[itemName] ELSE <<>>]

UndefinedIntentMessage(intent) ==
  "Intent '" \o jsString(intent) \o "' is referenced in stories/rules but not defined in domain"
UndefinedResponseMessage(action) ==
  "Response action '" \o jsString(action) \o "' is referenced in stories/rules but not defined in domain responses"
UndefinedActionMessage(action) ==
  "Action '" \o jsString(action) \o "' is referenced in stories/rules but not defined in domain actions or forms"
UndefinedSlotMessage(slot) ==
  "Slot '" \o jsString(slot) \o "' is referenced in stories/rules but not defined in domain"
UndefinedFormMessage(form) ==
  "Form '" \o jsString(form) \o "' is referenced in stories/rules (active_loop) but not defined in domain"
DeadIntentMessage(intent) ==
  "Intent '" \o jsString(intent) \o "' is defined in domain but not used in NLU data or stories/rules"
NoTrainingMessage(intent) ==
  "Intent '" \o jsString(intent) \o "' is defined in domain but has no training examples in NLU data"
UnusedResponseMessage(response) ==
  "Response '" \o jsString(response) \o "' is defined in domain but never used in stories/rules"
UnusedSlotMessage(slot) ==
  "Slot '" \o jsString(slot) \o "' is defined in domain but never referenced in stories/rules or forms"

\* The forEach callback of checkUndefinedIntents.
UndefinedIntentIssue(d, intent) ==
  IF ~Has(d.intents, intent)
  THEN <<Issue("undefined-intent", UndefinedIntentMessage(intent), "Error", intent)>>
  ELSE <<>>

RECURSIVE UndefinedIntentIssues(_, _)
UndefinedIntentIssues(d, names) ==
  IF names = <<>> THEN <<>> ELSE UndefinedIntentIssue(d, Head(names)) \o UndefinedIntentIssues(d, Tail(names))

\* The referenced set taken over the NLU intents as well.
checkUndefinedIntents_WithNLU(d) ==
  UndefinedIntentIssues(d, SetUnion(SetUnion(d.storyIntents, d.ruleIntents), d.nluIntents))

checkUndefinedIntents(d) == UndefinedIntentIssues(d, SetUnion(d.storyIntents, d.ruleIntents))

\* The callback without its utter_ branch: every name is looked up in actions and forms.
UndefinedActionIssue_NoPrefix(d, action) ==
  IF isBuiltInAction(action) THEN <<>>
  ELSE IF ~Has(d.actions, action) /\ ~Has(d.forms, action)
       THEN <<Issue("undefined-action", UndefinedActionMessage(action), "Error", action)>>
       ELSE <<>>

\* The forEach callback of checkUndefinedActions.
UndefinedActionIssue(d, action) ==
  IF isBuiltInAction(action) THEN <<>>
  ELSE IF startsWith(action.v, "utter_")
       THEN IF ~Has(d.responses, action)
            THEN <<Issue("undefined-response", UndefinedResponseMessage(action), "Error", action)>>
            ELSE <<>>
       ELSE IF ~Has(d.actions, action) /\ ~Has(d.forms, action)
            THEN <<Issue("undefined-action", UndefinedActionMessage(action), "Error", action)>>
            ELSE <<>>

RECURSIVE UndefinedActionIssues(_, _)
UndefinedActionIssues(d, names) ==
  IF names = <<>> THEN <<>> ELSE UndefinedActionIssue(d, Head(names)) \o UndefinedActionIssues(d, Tail(names))

checkUndefinedActions(d) == UndefinedActionIssues(d, SetUnion(d.storyActions, d.ruleActions))

\* The forEach callback of checkUndefinedSlots.
UndefinedSlotIssue(d, slot) ==
  IF ~Has(d.slots, slot)
  THEN <<Issue("undefined-slot", UndefinedSlotMessage(slot), "Error", slot)>>
  ELSE <<>>

RECURSIVE UndefinedSlotIssues(_, _)
UndefinedSlotIssues(d, names) ==
  IF names = <<>> THEN <<>> ELSE UndefinedSlotIssue(d, Head(names)) \o UndefinedSlotIssues(d, Tail(names))

checkUndefinedSlots(d) == UndefinedSlotIssues(d, SetUnion(d.storySlots, d.ruleSlots))

\* The forEach callback of checkUndefinedForms.
UndefinedFormIssue(d, form) ==
  IF ~Has(d.forms, form)
  THEN <<Issue("undefined-action", UndefinedFormMessage(form), "Error", form)>>
  ELSE <<>>

RECURSIVE UndefinedFormIssues(_, _)
UndefinedFormIssues(d, names) ==
  IF names = <<>> THEN <<>> ELSE UndefinedFormIssue(d, Head(names)) \o UndefinedFormIssues(d, Tail(names))

\* The referenced set taken over the story forms alone.
checkUndefinedForms_StoriesOnly(d) == UndefinedFormIssues(d, SetUnion(d.storyForms, <<>>))

checkUndefinedForms(d) == UndefinedFormIssues(d, SetUnion(d.storyForms, d.ruleForms))

\* The callback with two independent tests in place of the if / else if.
UnusedIntentIssue_Both(d, intent) ==
  LET hasNLU == Has(d.nluIntents, intent)
      usedInStories == Has(d.storyIntents, intent) \/ Has(d.ruleIntents, intent)
  IN (IF ~hasNLU
      THEN <<IssueDefinedIn("unused-intent", NoTrainingMessage(intent), "Warning", intent, d.intentFiles)>>
      ELSE <<>>)
     \o (IF ~hasNLU /\ ~usedInStories
         THEN <<IssueDefinedIn("unused-intent", DeadIntentMessage(intent), "Warning", intent, d.intentFiles)>>
         ELSE <<>>)

\* The callback without its else-if branch.
UnusedIntentIssue_NoElse(d, intent) ==
  LET hasNLU == Has(d.nluIntents, intent)
      usedInStories == Has(d.storyIntents, intent) \/ Has(d.ruleIntents, intent)
  IN IF ~hasNLU /\ ~usedInStories
     THEN <<IssueDefinedIn("unused-intent", DeadIntentMessage(intent), "Warning", intent, d.intentFiles)>>
     ELSE <<>>

\* The forEach callback of checkUnusedIntents.
UnusedIntentIssue(d, intent) ==
  LET hasNLU == Has(d.nluIntents, intent)
      usedInStories == Has(d.storyIntents, intent) \/ Has(d.ruleIntents, intent)
  IN IF ~hasNLU /\ ~usedInStories
     THEN <<IssueDefinedIn("unused-intent", DeadIntentMessage(intent), "Warning", intent, d.intentFiles)>>
     ELSE IF ~hasNLU
          THEN <<IssueDefinedIn("unused-intent", NoTrainingMessage(intent), "Warning", intent, d.intentFiles)>>
          ELSE <<>>

RECURSIVE UnusedIntentIssues(_, _)
UnusedIntentIssues(d, names) ==
  IF names = <<>> THEN <<>> ELSE UnusedIntentIssue(d, Head(names)) \o UnusedIntentIssues(d, Tail(names))

checkUnusedIntents(d) == UnusedIntentIssues(d, d.intents)

\* The forEach callback of checkUnusedResponses.
UnusedResponseIssue(d, referencedResponses, response) ==
  IF ~Has(referencedResponses, response)
  THEN <<IssueDefinedIn("unused-response", UnusedResponseMessage(response), "Information", response,
                        d.responseFiles)>>
  ELSE <<>>

RECURSIVE UnusedResponseIssues(_, _, _)
UnusedResponseIssues(d, referencedResponses, names) ==
  IF names = <<>> THEN <<>>
  ELSE UnusedResponseIssue(d, referencedResponses, Head(names))
         \o UnusedResponseIssues(d, referencedResponses, Tail(names))

\* The referenced set taken over the story actions alone.
checkUnusedResponses_StoriesOnly(d) == UnusedResponseIssues(d, SetUnion(d.storyActions, <<>>), d.responses)

checkUnusedResponses(d) == UnusedResponseIssues(d, SetUnion(d.storyActions, d.ruleActions), d.responses)

checkUnusedEntities(d) == <<>>

\* The check taking a slot for used when a form of the domain bears its name.
isSlotUsedInForms_ByForm(slot, d) == Has(d.forms, slot)

isSlotUsedInForms(slot, d) == FALSE

\* The forEach callback of checkUnusedSlots.
UnusedSlotIssue(d, referencedSlots, slot) ==
  IF ~Has(referencedSlots, slot) /\ ~isSlotUsedInForms(slot, d)
  THEN <<IssueDefinedIn("unused-slot", UnusedSlotMessage(slot), "Information", slot, d.slotFiles)>>
  ELSE <<>>

RECURSIVE UnusedSlotIssues(_, _, _)
UnusedSlotIssues(d, referencedSlots, names) ==
  IF names = <<>> THEN <<>>
  ELSE UnusedSlotIssue(d, referencedSlots, Head(names)) \o UnusedSlotIssues(d, referencedSlots, Tail(names))

checkUnusedSlots(d) == UnusedSlotIssues(d, SetUnion(d.storySlots, d.ruleSlots), d.slots)

\* `action.startsWith` is not a function when the name is no string: the callback of
\* checkUndefinedActions throws a TypeError, and so does detectIssues.
ActionThrows(action) == ~isBuiltInAction(action) /\ action.t # "string"

detectIssuesThrows(d) ==
  \E action \in Members(SetUnion(d.storyActions, d.ruleActions)) : ActionThrows(action)

detectIssues(d) ==
  checkUndefinedIntents(d) \o checkUndefinedActions(d) \o checkUndefinedSlots(d) \o checkUndefinedForms(d)
    \o checkUnusedIntents(d) \o checkUnusedResponses(d) \o checkUnusedEntities(d) \o checkUnusedSlots(d)

-----------------------------------------------------------------------------
(* CrossFileValidationService: grouping the issues by file *)

\* if (!issuesByFile.has(path)) issuesByFile.set(path, []); issuesByFile.get(path).push(issue)
PushIssue(byFile, path, issue) ==
  [k \in DOMAIN byFile \cup {path} |->
     IF k \in DOMAIN byFile THEN (IF k = path THEN Append(byFile[k], issue) ELSE byFile[k])
     ELSE <<issue>>]

RECURSIVE PushToAll(_, _, _)
PushToAll(byFile, paths, issue) ==
  IF paths = <<>> THEN byFile ELSE PushToAll(PushIssue(byFile, Head(paths), issue), Tail(paths), issue)

UndefinedTypes == {"undefined-intent", "undefined-action", "undefined-slot", "undefined-response"}
UnusedTypes == {"unused-intent", "unused-response", "unused-entity", "unused-slot"}

\* The callback spreading only over the rules-free list: [...storiesFiles].
GroupIssue_StoriesOnly(byFile, issue, storiesFiles, rulesFiles) ==
  IF issue.type \in UndefinedTypes
  THEN PushToAll(byFile, storiesFiles, issue)
  ELSE IF issue.type \in UnusedTypes
       THEN PushToAll(byFile, issue.definedIn, issue)
       ELSE byFile

\* The forEach callback of groupIssuesByFile.
GroupIssue(byFile, issue, storiesFiles, rulesFiles) ==
  IF issue.type \in UndefinedTypes
  THEN PushToAll(byFile, storiesFiles \o rulesFiles, issue)
  ELSE IF issue.type \in UnusedTypes
       THEN PushToAll(byFile, issue.definedIn, issue)
       ELSE byFile

RECURSIVE GroupIssues(_, _, _, _)
GroupIssues(byFile, list, storiesFiles, rulesFiles) ==
  IF list = <<>> THEN byFile
  ELSE GroupIssues(GroupIssue(byFile, Head(list), storiesFiles, rulesFiles), Tail(list),
                   storiesFiles, rulesFiles)

groupIssuesByFile(list, cache, byFile) ==
  GroupIssues(byFile, list, getStoriesFiles(cache), getRulesFiles(cache))


-----------------------------------------------------------------------------
(* The project on disk and its authoring *)

ProjectPaths == <<"config.yml", "domain.yml", "domain/extra.yml", "data/nlu.yml", "data/stories.yml", "data/rules.yml">>

DiskPaths == {fsPath(ProjectPaths[i]) : i \in 1..Len(ProjectPaths)}

\* A step of a story or a rule: the fields the extractor reads.
Step(intent, action, active_loop, slot_was_set) ==
  [t |-> "object", intent |-> intent, action |-> action, active_loop |-> active_loop, slot_was_set |-> slot_was_set]

ListEntries ==
  {<<"domain.yml", "intents", Str("book")>>, <<"domain/extra.yml", "intents", Str("book")>>,
   <<"domain.yml", "actions", Str("book")>>, <<"domain.yml", "actions", Str("utter_book")>>}

KeyEntries ==
  {<<"domain.yml", "slots", "book">>,
   <<"domain.yml", "responses", "utter_book">>, <<"domain/extra.yml", "responses", "utter_book">>,
   <<"domain.yml", "forms", "book">>, <<"domain.yml", "forms", "utter_book">>}

\* Forms with required slots: file, form name, slots.
FormEntries == {<<"domain.yml", "book", <<Str("book")>>>>}

TrainingItems == {<<"data/nlu.yml", Str("book")>>}

StorySteps ==
  {Step(Str("book"), Undefined, Undefined, Undefined),
   Step(Undefined, Str("book"), Undefined, Undefined),
   Step(Undefined, Str("utter_book"), Undefined, Undefined),
   Step(Undefined, Str("action_listen"), Undefined, Undefined),
   Step(Undefined, Undefined, Str("book"), Undefined),
   Step(Undefined, Undefined, Str("action_listen"), Undefined),
   Step(Undefined, Undefined, Null, Undefined),
   Step(Undefined, Undefined, Undefined, Obj(<<"book">>)),
   Step(Undefined, Undefined, Undefined, Arr(<<Obj(<<"book">>), Obj(<<"city">>)>>))}

RuleSteps ==
  {Step(Str("book"), Undefined, Undefined, Undefined),
   Step(Undefined, Str("utter_book"), Undefined, Undefined),
   Step(Undefined, Undefined, Str("book"), Undefined),
   Step(Undefined, Undefined, Undefined, Arr(<<Obj(<<"book">>)>>))}

FlowSteps ==
  {<<"data/stories.yml", "stories", step>> : step \in StorySteps}
    \cup {<<"data/rules.yml", "rules", step>> : step \in RuleSteps}

Breakable == {"domain/extra.yml", "data/stories.yml"}

\* The field of a document with one more item in its list.
WithItem(doc, field, item) ==
  [doc EXCEPT ![field] = IF @ = Undefined THEN Arr(<<item>>) ELSE Arr(Append(@.items, item))]

\* The field of a document with one more key in its mapping.
WithKey(doc, field, key) ==
  [doc EXCEPT ![field] =
     IF @ = Undefined THEN Obj(<<key>>)
     ELSE IF "values" \in DOMAIN @ THEN ObjOf(Append(@.keys, key), Append(@.values, Null))
     ELSE Obj(Append(@.keys, key))]

\* The body of a form: `required_slots: [slot, ...]`.
FormBody(slots) == ObjOf(<<"required_slots">>, <<Arr(slots)>>)

\* The `forms:` mapping with one more form that lists its required slots.
WithForm(doc, name, slots) ==
  [doc EXCEPT !.forms =
     IF @ = Undefined THEN ObjOf(<<name>>, <<FormBody(slots)>>)
     ELSE IF "values" \in DOMAIN @ THEN ObjOf(Append(@.keys, name), Append(@.values, FormBody(slots)))
     ELSE ObjOf(Append(@.keys, name), [i \in 1..(Len(@.keys) + 1) |-> IF i <= Len(@.keys) THEN Null ELSE FormBody(slots)])]

HasKey(doc, field, key) == doc[field] # Undefined /\ Has(doc[field].keys, key)

\* The first flow of the file with one more step (the flow is created when the file has none).
WithStep(doc, field, step) ==
  [doc EXCEPT ![field] =
     IF @ = Undefined THEN Arr(<<[t |-> "object", steps |-> Arr(<<step>>)]>>)
     ELSE Arr(<<[t |-> "object", steps |-> Arr(Append(@.items[1].steps.items, step))]>>)]

Editable(relativePath) ==
  /\ pc = "idle"
  /\ edits < MaxEdits
  /\ disk[fsPath(relativePath)].success

Edited(relativePath, doc) ==
  /\ disk' = [disk EXCEPT ![fsPath(relativePath)] = ParseOk(doc)]
  /\ edits' = edits + 1
  /\ UNCHANGED <<completionVars, providerVars, projectFiles, isRasaProjectDetected, delivered, pc, files, idx, data, issues, issuesByFile>>

DeclareEntryOf(entries) ==
  \E e \in entries :
    /\ Editable(e[1])
    /\ Edited(e[1], WithItem(disk[fsPath(e[1])].data, e[2], e[3]))

DeclareKeyOf(entries) ==
  \E e \in entries :
    /\ Editable(e[1])
    /\ ~HasKey(disk[fsPath(e[1])].data, e[2], e[3])
    /\ Edited(e[1], WithKey(disk[fsPath(e[1])].data, e[2], e[3]))

AddStepOf(steps) ==
  \E e \in steps :
    /\ Editable(e[1])
    /\ Edited(e[1], WithStep(disk[fsPath(e[1])].data, e[2], e[3]))

DeclareEntry == DeclareEntryOf(ListEntries)

DeclareKey == DeclareKeyOf(KeyEntries)

DeclareForm ==
  \E e \in FormEntries :
    /\ Editable(e[1])
    /\ ~HasKey(disk[fsPath(e[1])].data, "forms", e[2])
    /\ Edited(e[1], WithForm(disk[fsPath(e[1])].data, e[2], e[3]))

AddTrainingItem ==
  \E e \in TrainingItems :
    /\ Editable(e[1])
    /\ Edited(e[1], WithItem(disk[fsPath(e[1])].data, "nlu", [t |-> "object", intent |-> e[2]]))

AddStep == AddStepOf(FlowSteps)

\* An edit after which the file no longer parses.
BreakFileOf(paths) ==
  \E relativePath \in paths :
    /\ Editable(relativePath)
    /\ disk' = [disk EXCEPT ![fsPath(relativePath)] = ParseFailed]
    /\ edits' = edits + 1
    /\ UNCHANGED <<completionVars, providerVars, projectFiles, isRasaProjectDetected, delivered, pc, files, idx, data, issues, issuesByFile>>

BreakFile == BreakFileOf(Breakable)

-----------------------------------------------------------------------------
(* validateProject(): one pass, one step per awaited file *)

Phases == <<"domain", "nlu", "stories", "rules">>

\* A try block that ends after aggregateProjectData: a later error leaves validateProject().
validateProjectCatch_AggregateOnly(call) ==
  IF call = "aggregateProjectData" THEN "routed" ELSE "rejected"

\* Where validateProject() is after one of the calls of its try block has thrown: the
\* catch logs the error and the function returns the map as it is.
validateProjectCatch(call) ==
  IF call \in {"aggregateProjectData", "detectIssues", "groupIssuesByFile"} THEN "routed" ELSE "rejected"

\* The loop that runs next, from phase k on: a loop over no file ends at once.
RECURSIVE EnterPhase(_, _)
EnterPhase(k, cache) ==
  IF k > Len(Phases) THEN [pc |-> "evaluating", files |-> <<>>]
  ELSE LET list == getFilesByType(cache, Phases[k])
       IN IF list = <<>> THEN EnterPhase(k + 1, cache) ELSE [pc |-> Phases[k], files |-> list]

\* After the file at idx: the next file of the loop, or the next loop.
Advance(k) ==
  IF idx < Len(files)
  THEN /\ idx' = idx + 1
       /\ UNCHANGED <<pc, files>>
  ELSE LET next == EnterPhase(k + 1, projectFiles)
       IN /\ pc' = next.pc
          /\ files' = next.files
          /\ idx' = 1

\* A pass that does not ask isRasaProject() and aggregates whatever the cache holds.
ValidateProject_NoDetectionCheck ==
  /\ pc = "idle"
  /\ LET next == EnterPhase(1, projectFiles)
     IN /\ pc' = next.pc
        /\ files' = next.files
        /\ idx' = 1
        /\ data' = NewProjectData
  /\ issues' = <<>>
  /\ issuesByFile' = EmptyMap
  /\ UNCHANGED <<completionVars, providerVars, projectFiles, isRasaProjectDetected, delivered, disk, edits>>

\* A pass that goes on filling the ProjectData of the pass before it.
ValidateProject_CarryOver ==
  /\ pc = "idle"
  /\ IF ~isRasaProjectDetected
     THEN /\ pc' = "routed"
          /\ UNCHANGED <<files, idx>>
     ELSE LET next == EnterPhase(1, projectFiles)
          IN /\ pc' = next.pc
             /\ files' = next.files
             /\ idx' = 1
  /\ issues' = <<>>
  /\ issuesByFile' = EmptyMap
  /\ UNCHANGED <<completionVars, providerVars, projectFiles, isRasaProjectDetected, delivered, disk, edits, data>>

ValidateProject ==
  /\ pc = "idle"
  /\ IF ~isRasaProjectDetected
     THEN /\ pc' = "routed"
          /\ UNCHANGED <<files, idx, data>>
     ELSE LET next == EnterPhase(1, projectFiles)
          IN /\ pc' = next.pc
             /\ files' = next.files
             /\ idx' = 1
             /\ data' = NewProjectData
  /\ issues' = <<>>
  /\ issuesByFile' = EmptyMap
  /\ UNCHANGED <<completionVars, providerVars, projectFiles, isRasaProjectDetected, delivered, disk, edits>>

ParseDomainFile ==
  /\ pc = "domain"
  /\ data' = parseDomainFile(data, files[idx])
  /\ Advance(1)
  /\ UNCHANGED <<completionVars, providerVars, projectFiles, isRasaProjectDetected, delivered, disk, edits, issues, issuesByFile>>

ParseNLUFile ==
  /\ pc = "nlu"
  /\ data' = parseNLUFile(data, files[idx])
  /\ Advance(2)
  /\ UNCHANGED <<completionVars, providerVars, projectFiles, isRasaProjectDetected, delivered, disk, edits, issues, issuesByFile>>

ParseStoriesFile ==
  /\ pc = "stories"
  /\ data' = parseStoriesFile(data, files[idx])
  /\ Advance(3)
  /\ UNCHANGED <<completionVars, providerVars, projectFiles, isRasaProjectDetected, delivered, disk, edits, issues, issuesByFile>>

ParseRulesFile ==
  /\ pc = "rules"
  /\ data' = parseRulesFile(data, files[idx])
  /\ Advance(4)
  /\ UNCHANGED <<completionVars, providerVars, projectFiles, isRasaProjectDetected, delivered, disk, edits, issues, issuesByFile>>

DetectIssues ==
  /\ pc = "evaluating"
  /\ IF detectIssuesThrows(data)
     THEN /\ pc' = validateProjectCatch("detectIssues")
          /\ UNCHANGED issues
     ELSE /\ issues' = detectIssues(data)
          /\ pc' = "routing"
  /\ UNCHANGED <<completionVars, providerVars, projectFiles, isRasaProjectDetected, delivered, disk, edits, files, idx, data, issuesByFile>>

GroupIssuesByFile ==
  /\ pc = "routing"
  /\ issuesByFile' = groupIssuesByFile(issues, projectFiles, issuesByFile)
  /\ pc' = "routed"
  /\ UNCHANGED <<completionVars, providerVars, projectFiles, isRasaProjectDetected, delivered, disk, edits, files, idx, data, issues>>

\* The map is handed to the caller; the pass's data is dropped.
Return ==
  /\ pc = "routed"
  /\ pc' = "idle"
  /\ files' = <<>>
  /\ idx' = 1
  /\ data' = NewProjectData
  /\ issues' = <<>>
  /\ issuesByFile' = EmptyMap
  /\ UNCHANGED <<completionVars, providerVars, projectFiles, isRasaProjectDetected, delivered, disk, edits>>

\* The map is handed to a caller that keeps it (the diagnostic provider reads it after
\* its await); the ProjectData of the pass is garbage from here on.
Deliver ==
  /\ pc = "routed"
  /\ pc' = "idle"
  /\ delivered' = issuesByFile
  /\ files' = <<>>
  /\ idx' = 1
  /\ issues' = <<>>
  /\ issuesByFile' = EmptyMap
  /\ UNCHANGED <<completionVars, providerVars, projectFiles, isRasaProjectDetected, disk, edits, data>>

-----------------------------------------------------------------------------
(* RasaCompletionProvider: the domain cache and the requests that refresh  *)
(* and read it                                                              *)

\* private readonly CACHE_VALIDITY_MS = 5000
CACHE_VALIDITY_MS == 5000

MaxRequests == 3

RequestIds == 1..MaxRequests

IdleRequest == [pc |-> "idle", now |-> 0, files |-> <<>>, idx |-> 1, completions |-> {}]

\* getAllIntents(): the intents of the domains the cache holds (sorted, so a set).
getAllIntents(cache) == UNION {Members(extractIntents(cache[path])) : path \in DOMAIN cache}

\* domainCache.set(fsPath, data)
CacheSet(cache, path, domain) ==
  [k \in DOMAIN cache \cup {path} |-> IF k = path THEN domain ELSE cache[k]]

CompletionIdle ==
  /\ domainCache = EmptyMap
  /\ lastCacheUpdate = 0
  /\ now = CACHE_VALIDITY_MS
  /\ requests = [q \in RequestIds |-> IdleRequest]

-----------------------------------------------------------------------------
(* RasaDiagnosticProvider: the debounce timer, the passes its timer starts  *)
(* and the cross-file diagnostics it publishes.  A pass of the provider is  *)
(* a record with the fields of the pass above; `parsed` lists the story and *)
(* rule files the pass has read.                                            *)

\* setTimeout(() => this.runCrossFileValidation(), 500)
QuietIntervalMs == 500

\* The step of the clock.
TickMs == QuietIntervalMs \div 2

\* The field is initialised to true and never assigned.
crossFileValidationEnabled == TRUE

\* The Timeout object setTimeout returns: the time left, and whether it was cleared or has fired.
Timeout(ms) == [t |-> "Timeout", ms |-> ms, destroyed |-> FALSE]

Pending(timer) == timer # Undefined /\ ~timer.destroyed

\* A debounce that leaves a pending timer running instead of replacing it.
debouncedCrossFileValidation_KeepTimer(timer) ==
  IF ~crossFileValidationEnabled THEN timer
  ELSE IF Pending(timer) THEN timer ELSE Timeout(QuietIntervalMs)

\* The timer field after debouncedCrossFileValidation(): the old timer is cleared, a new one set.
debouncedCrossFileValidation(timer) ==
  IF ~crossFileValidationEnabled THEN timer ELSE Timeout(QuietIntervalMs)

IdleRun ==
  [pc |-> "idle", files |-> <<>>, idx |-> 1, data |-> NewProjectData, issues |-> <<>>,
   issuesByFile |-> EmptyMap, parsed |-> <<>>]

\* validateProject() from its call to its first await, or to its return when no Rasa
\* project is detected.
BeginPass(detected, cache) ==
  IF ~detected THEN [IdleRun EXCEPT !.pc = "routed"]
  ELSE LET next == EnterPhase(1, cache)
       IN [IdleRun EXCEPT !.pc = next.pc, !.files = next.files]

PhaseOf(p) == CHOOSE k \in 1..Len(Phases) : Phases[k] = p

\* The pass from the completion of the awaited parseFile to its next await; after the
\* last file detectIssues and groupIssuesByFile follow without an await.
ResumePass(run, cache) ==
  CASE run.pc \in {"domain", "nlu", "stories", "rules"} ->
         LET file == run.files[run.idx]
             d == CASE run.pc = "domain" -> parseDomainFile(run.data, file)
                    [] run.pc = "nlu" -> parseNLUFile(run.data, file)
                    [] run.pc = "stories" -> parseStoriesFile(run.data, file)
                    [] run.pc = "rules" -> parseRulesFile(run.data, file)
             read == IF run.pc \in {"stories", "rules"} /\ parseFile(file).success
                     THEN Append(run.parsed, file) ELSE run.parsed
             next == EnterPhase(PhaseOf(run.pc) + 1, cache)
         IN IF run.idx < Len(run.files)
            THEN [run EXCEPT !.data = d, !.parsed = read, !.idx = @ + 1]
            ELSE [run EXCEPT !.data = d, !.parsed = read, !.pc = next.pc, !.files = next.files, !.idx = 1]
    [] run.pc = "evaluating" ->
         IF detectIssuesThrows(run.data)
         THEN [run EXCEPT !.pc = validateProjectCatch("detectIssues")]
         ELSE [run EXCEPT !.issues = detectIssues(run.data), !.pc = "routing"]
    [] run.pc = "routing" ->
         [run EXCEPT !.issuesByFile = groupIssuesByFile(run.issues, cache, run.issuesByFile),
                     !.pc = "routed"]
    [] OTHER -> run

CrossFileSource == "Rasa (Cross-File)"

\* One diagnostic per issue, in the order of the issues; the range is left out.
RECURSIVE convertCrossFileIssuesToDiagnostics(_)
convertCrossFileIssuesToDiagnostics(list) ==
  IF list = <<>> THEN <<>>
  ELSE <<[source |-> CrossFileSource, code |-> Head(list).type, message |-> Head(list).message,
          severity |-> Head(list).severity]>>
       \o convertCrossFileIssuesToDiagnostics(Tail(list))

\* A publication that replaces what the collection holds for the file.
PublishEntry_Replace(existingDiagnostics, list) == convertCrossFileIssuesToDiagnostics(list)

\* The body of the loop of runCrossFileValidation(): the diagnostics set for a file of the map.
PublishEntry(existingDiagnostics, list) ==
  existingDiagnostics \o convertCrossFileIssuesToDiagnostics(list)

\* The loop of runCrossFileValidation() over the entries of the map.
PublishAll(collection, byFile) ==
  [path \in DOMAIN collection |->
     IF path \in DOMAIN byFile THEN PublishEntry(collection[path], byFile[path]) ELSE collection[path]]

\* validateDocument() for a document without syntax or schema errors: with diagnostics
\* enabled the file's diagnostics are set to the document's own, which are none.
validateDocument(collection, path, enabled) ==
  IF ~enabled THEN collection ELSE [collection EXCEPT ![path] = <<>>]

\* diagnosticCollection.delete(uri)
DeleteDiagnostics(collection, path) == [collection EXCEPT ![path] = <<>>]

\* RasaProjectService.addFile / removeFile on the cache (the service watches the files
\* only when it has detected a project).
addFile(cache, relativePath, detected) ==
  IF detected /\ ~Has(cache, relativePath) THEN Append(cache, relativePath) ELSE cache

removeFile(cache, relativePath, detected) ==
  IF detected THEN SelectSeq(cache, LAMBDA q : q # relativePath) ELSE cache

RunIds == 1..MaxEdits

ProviderIdle ==
  /\ enableDiagnostics = TRUE
  /\ crossFileValidationTimer = Undefined
  /\ sinceSignal = QuietIntervalMs
  /\ passesSinceSignal = 0
  /\ runs = [r \in RunIds |-> IdleRun]
  /\ diagnosticCollection = [path \in DiskPaths |-> <<>>]

Init ==
  /\ projectFiles = ProjectPaths
  /\ isRasaProjectDetected = TRUE
  /\ disk = [p \in DiskPaths |-> ParseOk(EmptyDoc)]
  /\ edits = 0
  /\ pc = "idle"
  /\ files = <<>>
  /\ idx = 1
  /\ data = NewProjectData
  /\ issues = <<>>
  /\ issuesByFile = EmptyMap
  /\ delivered = EmptyMap
  /\ ProviderIdle
  /\ CompletionIdle

Next ==
  \/ DeclareEntry
  \/ DeclareKey
  \/ DeclareForm
  \/ AddTrainingItem
  \/ AddStep
  \/ BreakFile
  \/ ValidateProject
  \/ ParseDomainFile
  \/ ParseNLUFile
  \/ ParseStoriesFile
  \/ ParseRulesFile
  \/ DetectIssues
  \/ GroupIssuesByFile
  \/ Return

Spec == Init /\ [][Next]_vars

-----------------------------------------------------------------------------
(* The same pass over projects whose flows name the built-in actions *)

BuiltInSteps ==
  {<<"data/stories.yml", "stories", Step(Undefined, Str(builtInActions[i]), Undefined, Undefined)>> :
     i \in 1..Len(builtInActions)}
    \cup {<<"data/rules.yml", "rules", Step(Undefined, Str(b), Undefined, Undefined)>> :
            b \in {"action_listen", "action_session_start"}}
    \cup {<<"data/stories.yml", "stories", Step(Undefined, Undefined, Str("action_listen"), Undefined)>>,
          <<"data/stories.yml", "stories", Step(Undefined, Str("book"), Undefined, Undefined)>>}

BuiltInListEntries ==
  {<<"domain.yml", "actions", Str("book")>>, <<"domain.yml", "actions", Str("action_listen")>>}

BuiltInKeyEntries ==
  {<<"domain.yml", "forms", "book">>, <<"domain.yml", "responses", "utter_book">>}

DeclareBesideBuiltIn == DeclareEntryOf(BuiltInListEntries)

DeclareKeyBesideBuiltIn == DeclareKeyOf(BuiltInKeyEntries)

AddBuiltInStep == AddStepOf(BuiltInSteps)

NextBuiltIn ==
  \/ DeclareBesideBuiltIn
  \/ DeclareKeyBesideBuiltIn
  \/ AddBuiltInStep
  \/ ValidateProject
  \/ ParseDomainFile
  \/ ParseNLUFile
  \/ ParseStoriesFile
  \/ ParseRulesFile
  \/ DetectIssues
  \/ GroupIssuesByFile
  \/ Return

SpecBuiltIn == Init /\ [][NextBuiltIn]_vars

-----------------------------------------------------------------------------
(* The same pass over projects whose definitions are split over two domain *)
(* files: every kind of name can be declared in either file or in both.    *)

SplitFiles == {"domain.yml", "domain/extra.yml"}

SplitListEntries == {<<f, k, Str("book")>> : f \in SplitFiles, k \in {"intents", "entities", "actions"}}

SplitKeyEntries == {<<f, k, "book">> : f \in SplitFiles, k \in {"slots", "responses", "forms"}}

DeclareSplitEntry == DeclareEntryOf(SplitListEntries)

DeclareSplitKey == DeclareKeyOf(SplitKeyEntries)

NextSplit ==
  \/ DeclareSplitEntry
  \/ DeclareSplitKey
  \/ ValidateProject
  \/ ParseDomainFile
  \/ ParseNLUFile
  \/ ParseStoriesFile
  \/ ParseRulesFile
  \/ DetectIssues
  \/ GroupIssuesByFile
  \/ Return

SpecSplit == Init /\ [][NextSplit]_vars


-----------------------------------------------------------------------------
(* The same pass over projects any of whose files may fail to parse *)

FailListEntries == {<<"domain.yml", "intents", Str("book")>>, <<"domain/extra.yml", "intents", Str("book")>>}

FailKeyEntries == {<<"domain.yml", "responses", "utter_book">>}

FailSteps ==
  {<<"data/stories.yml", "stories", Step(Str("book"), Undefined, Undefined, Undefined)>>,
   <<"data/stories.yml", "stories", Step(Undefined, Undefined, Undefined, Obj(<<"book">>))>>,
   <<"data/rules.yml", "rules", Step(Str("book"), Undefined, Undefined, Undefined)>>,
   <<"data/rules.yml", "rules", Step(Undefined, Str("utter_book"), Undefined, Undefined)>>}

FailingFiles == {"domain.yml", "domain/extra.yml", "data/nlu.yml", "data/stories.yml", "data/rules.yml"}

DeclareBesideFailure == DeclareEntryOf(FailListEntries)

DeclareKeyBesideFailure == DeclareKeyOf(FailKeyEntries)

AddStepBesideFailure == AddStepOf(FailSteps)

BreakAnyFile == BreakFileOf(FailingFiles)

NextParseFailure ==
  \/ DeclareBesideFailure
  \/ DeclareKeyBesideFailure
  \/ AddTrainingItem
  \/ AddStepBesideFailure
  \/ BreakAnyFile
  \/ ValidateProject
  \/ ParseDomainFile
  \/ ParseNLUFile
  \/ ParseStoriesFile
  \/ ParseRulesFile
  \/ DetectIssues
  \/ GroupIssuesByFile
  \/ Return

SpecParseFailure == Init /\ [][NextParseFailure]_vars

-----------------------------------------------------------------------------
(* The same pass over projects whose stories file holds unexpected shapes: *)
(* a null step, a null entry in a slot_was_set list, a number for an       *)
(* action name.  The workspace may or may not be a Rasa project.           *)

ShapeListEntries == {<<"domain.yml", "intents", Str("book")>>}

ShapeSteps ==
  {<<"data/stories.yml", "stories", Null>>,
   <<"data/stories.yml", "stories", Step(Undefined, Undefined, Undefined, Arr(<<Obj(<<"book">>), Null, Obj(<<"city">>)>>))>>,
   <<"data/stories.yml", "stories", Step(Undefined, Num(5), Undefined, Undefined)>>,
   <<"data/stories.yml", "stories", Step(Str("book"), Undefined, Undefined, Undefined)>>,
   <<"data/rules.yml", "rules", Step(Str("city"), Undefined, Undefined, Undefined)>>}

UnreadableFiles == {"domain.yml", "data/stories.yml"}

DeclareBesideShapes == DeclareEntryOf(ShapeListEntries)

AddShapedStep == AddStepOf(ShapeSteps)

MakeUnreadable == BreakFileOf(UnreadableFiles)

InitShapes ==
  /\ projectFiles = ProjectPaths
  /\ isRasaProjectDetected \in BOOLEAN
  /\ disk = [p \in DiskPaths |-> ParseOk(EmptyDoc)]
  /\ edits = 0
  /\ pc = "idle"
  /\ files = <<>>
  /\ idx = 1
  /\ data = NewProjectData
  /\ issues = <<>>
  /\ issuesByFile = EmptyMap
  /\ delivered = EmptyMap
  /\ ProviderIdle
  /\ CompletionIdle

NextShapes ==
  \/ DeclareBesideShapes
  \/ AddShapedStep
  \/ MakeUnreadable
  \/ ValidateProject
  \/ ParseDomainFile
  \/ ParseNLUFile
  \/ ParseStoriesFile
  \/ ParseRulesFile
  \/ DetectIssues
  \/ GroupIssuesByFile
  \/ Return

SpecShapes == InitShapes /\ [][NextShapes]_vars

-----------------------------------------------------------------------------
(* The same pass over domains whose intents and entities are written in    *)
(* every encoding: a plain name, an object with one key, with no key and   *)
(* with two keys.                                                          *)

Encodings == {Str("book"), Obj(<<"book">>), Obj(<<>>), Obj(<<"book", "city">>), Obj(<<"city", "book">>)}

EncodedEntries == {<<"domain.yml", k, e>> : k \in {"intents", "entities"}, e \in Encodings}

DeclareEncoded == DeclareEntryOf(EncodedEntries)

NextEncodings ==
  \/ DeclareEncoded
  \/ ValidateProject
  \/ ParseDomainFile
  \/ ParseNLUFile
  \/ ParseStoriesFile
  \/ ParseRulesFile
  \/ DetectIssues
  \/ GroupIssuesByFile
  \/ Return

SpecEncodings == Init /\ [][NextEncodings]_vars

-----------------------------------------------------------------------------
(* Pass after pass over a project that gains definitions and usages, with  *)
(* a caller that keeps the map of each pass until the next one returns.    *)

RoundTripListEntries == {<<"domain.yml", "intents", Str("book")>>}

RoundTripKeyEntries == {<<"domain.yml", "responses", "utter_book">>, <<"domain.yml", "slots", "book">>}

RoundTripSteps ==
  {<<"data/stories.yml", "stories", Step(Str("book"), Undefined, Undefined, Undefined)>>,
   <<"data/stories.yml", "stories", Step(Undefined, Str("utter_book"), Undefined, Undefined)>>,
   <<"data/rules.yml", "rules", Step(Undefined, Undefined, Undefined, Obj(<<"book">>))>>}

DeclareUnused == DeclareEntryOf(RoundTripListEntries)

DeclareUnusedKey == DeclareKeyOf(RoundTripKeyEntries)

AddUsage == AddStepOf(RoundTripSteps)

LoseTrainingData == BreakFileOf({"data/nlu.yml"})

NextRoundTrip ==
  \/ DeclareUnused
  \/ DeclareUnusedKey
  \/ AddTrainingItem
  \/ AddUsage
  \/ LoseTrainingData
  \/ ValidateProject
  \/ ParseDomainFile
  \/ ParseNLUFile
  \/ ParseStoriesFile
  \/ ParseRulesFile
  \/ DetectIssues
  \/ GroupIssuesByFile
  \/ Deliver

SpecRoundTrip == Init /\ [][NextRoundTrip]_vars

-----------------------------------------------------------------------------
(* parseDomainFiles as a function of the list it is handed: the list and   *)
(* the contents of the two domain files are drawn, a path may be listed    *)
(* more than once, and the project has no NLU, stories or rules file.      *)

DomainPaths == <<"domain.yml", "domain/extra.yml">>

\* Lists of domain files up to a length.
RECURSIVE FileLists(_)
FileLists(n) ==
  IF n = 0 THEN {<<>>}
  ELSE FileLists(n - 1)
         \cup {Append(l, fsPath(DomainPaths[i])) : l \in {x \in FileLists(n - 1) : Len(x) = n - 1},
                                                 i \in 1..Len(DomainPaths)}

DomainDocs ==
  {[EmptyDoc EXCEPT !.intents = i, !.slots = s, !.actions = a] :
     i \in {Undefined, Arr(<<Str("book")>>)},
     s \in {Undefined, Obj(<<"book">>)},
     a \in {Undefined, Arr(<<Str("book")>>)}}

InitFileList ==
  /\ projectFiles = DomainPaths
  /\ isRasaProjectDetected = TRUE
  /\ \E d1 \in DomainDocs, d2 \in DomainDocs :
       disk = [p \in DiskPaths |->
                 IF p = fsPath("domain.yml") THEN ParseOk(d1)
                 ELSE IF p = fsPath("domain/extra.yml") THEN ParseOk(d2)
                 ELSE ParseOk(EmptyDoc)]
  /\ edits = 0
  /\ pc = "domain"
  /\ files \in FileLists(MaxListLen) \ {<<>>}
  /\ idx = 1
  /\ data = NewProjectData
  /\ issues = <<>>
  /\ issuesByFile = EmptyMap
  /\ delivered = EmptyMap
  /\ ProviderIdle
  /\ CompletionIdle

\* The whole loop of parseDomainFiles; the other three loops run over no file.
ParseDomainFiles ==
  /\ pc = "domain"
  /\ data' = parseDomainFiles(data, files)
  /\ pc' = EnterPhase(2, projectFiles).pc
  /\ UNCHANGED <<completionVars, providerVars, projectFiles, isRasaProjectDetected, delivered, disk, edits, files, idx, issues, issuesByFile>>

NextFileList ==
  \/ ParseDomainFiles
  \/ DetectIssues
  \/ GroupIssuesByFile
  \/ Return

SpecFileList == InitFileList /\ [][NextFileList]_vars

-----------------------------------------------------------------------------
(* The diagnostic provider over a workspace with a domain file and a       *)
(* stories file.  The file system watcher signals changes, deletions and   *)
(* creations; the handlers run at once, the passes the timer starts are    *)
(* suspended at every file read, and code without an await runs to its end *)
(* before any other handler.  Opening the documents of the map returned is *)
(* taken to follow its delivery at once.                                   *)

ProviderPaths == <<"domain.yml", "data/stories.yml", "data/rules.yml">>

ChangedPaths == {"domain.yml", "data/stories.yml"}

DeletablePaths == {"data/stories.yml", "data/rules.yml"}

\* What an edit of the file leaves on disk: one more intent in the domain, one more
\* intent step in the stories.
ChangedDoc(relativePath, doc) ==
  IF relativePath = "domain.yml"
  THEN WithItem(doc, "intents", Str("book"))
  ELSE WithStep(doc, "stories", Step(Str("book"), Undefined, Undefined, Undefined))

InFlight(rs) == {r \in DOMAIN rs : rs[r].pc # "idle"}

\* A call of runCrossFileValidation() is running code that has no await before its end.
Busy == \E r \in RunIds : runs[r].pc \in {"evaluating", "routing", "routed"}

\* A provider that starts no pass while another one is in flight.
runCrossFileValidation_OneAtATime(rs, detected, cache) ==
  IF InFlight(rs) # {} THEN rs
  ELSE [rs EXCEPT ![1] = BeginPass(detected, cache)]

\* A provider whose new pass supersedes the passes in flight: they are dropped.
runCrossFileValidation_Supersede(rs, detected, cache) ==
  [r \in DOMAIN rs |-> IF r = 1 THEN BeginPass(detected, cache) ELSE IdleRun]

\* runCrossFileValidation() from its call to the first await of its validateProject().
runCrossFileValidation(rs, detected, cache) ==
  LET r == CHOOSE k \in DOMAIN rs \ InFlight(rs) : \A j \in DOMAIN rs \ InFlight(rs) : k <= j
  IN [rs EXCEPT ![r] = BeginPass(detected, cache)]

\* What every watcher handler of the provider ends with.
Signal ==
  /\ crossFileValidationTimer' = debouncedCrossFileValidation(crossFileValidationTimer)
  /\ sinceSignal' = 0
  /\ passesSinceSignal' = 0

\* fileWatcher.onDidChange of the provider and of the project service.
FileChangedWithin(limit) ==
  \E relativePath \in ChangedPaths :
    LET path == fsPath(relativePath) IN
      /\ ~Busy
      /\ edits < limit
      /\ disk[path].success
      /\ disk[path].data.intents = Undefined
      /\ disk[path].data.stories = Undefined
      /\ disk' = [disk EXCEPT ![path] = ParseOk(ChangedDoc(relativePath, disk[path].data))]
      /\ edits' = edits + 1
      /\ diagnosticCollection' = validateDocument(diagnosticCollection, path, enableDiagnostics)
      /\ Signal
      /\ UNCHANGED <<completionVars, projectFiles, isRasaProjectDetected, pc, files, idx, data, issues, issuesByFile,
                     delivered, enableDiagnostics, runs>>

\* fileWatcher.onDidDelete of the provider and of the project service.
FileDeletedWithin(limit) ==
  \E relativePath \in DeletablePaths :
    LET path == fsPath(relativePath) IN
      /\ ~Busy
      /\ edits < limit
      /\ disk[path].success
      /\ disk' = [disk EXCEPT ![path] = ParseFailed]
      /\ edits' = edits + 1
      /\ projectFiles' = removeFile(projectFiles, relativePath, isRasaProjectDetected)
      /\ diagnosticCollection' = DeleteDiagnostics(diagnosticCollection, path)
      /\ Signal
      /\ UNCHANGED <<completionVars, isRasaProjectDetected, pc, files, idx, data, issues, issuesByFile,
                     delivered, enableDiagnostics, runs>>

\* fileWatcher.onDidCreate of the provider and of the project service.
FileCreatedWithin(limit) ==
  \E relativePath \in DeletablePaths :
    LET path == fsPath(relativePath) IN
      /\ ~Busy
      /\ edits < limit
      /\ ~disk[path].success
      /\ disk' = [disk EXCEPT ![path] = ParseOk(EmptyDoc)]
      /\ edits' = edits + 1
      /\ projectFiles' = addFile(projectFiles, relativePath, isRasaProjectDetected)
      /\ diagnosticCollection' = validateDocument(diagnosticCollection, path, enableDiagnostics)
      /\ Signal
      /\ UNCHANGED <<completionVars, isRasaProjectDetected, pc, files, idx, data, issues, issuesByFile,
                     delivered, enableDiagnostics, runs>>

FileChanged == FileChangedWithin(MaxEdits)

FileDeleted == FileDeletedWithin(MaxEdits)

FileCreated == FileCreatedWithin(MaxEdits)

\* Time passes while a timer is pending.
Tick ==
  /\ ~Busy
  /\ Pending(crossFileValidationTimer)
  /\ crossFileValidationTimer.ms > 0
  /\ crossFileValidationTimer' = [crossFileValidationTimer EXCEPT !.ms = @ - TickMs]
  /\ sinceSignal' = sinceSignal + TickMs
  /\ UNCHANGED <<completionVars, projectFiles, isRasaProjectDetected, disk, edits, pc, files, idx, data, issues,
                 issuesByFile, delivered, enableDiagnostics, passesSinceSignal, runs, diagnosticCollection>>

\* The timer expires: its callback calls runCrossFileValidation().
TimerFires ==
  /\ ~Busy
  /\ Pending(crossFileValidationTimer)
  /\ crossFileValidationTimer.ms = 0
  /\ crossFileValidationTimer' = [crossFileValidationTimer EXCEPT !.destroyed = TRUE]
  /\ runs' = runCrossFileValidation(runs, isRasaProjectDetected, projectFiles)
  /\ passesSinceSignal' = passesSinceSignal + 1
  /\ UNCHANGED <<completionVars, projectFiles, isRasaProjectDetected, disk, edits, pc, files, idx, data, issues,
                 issuesByFile, delivered, enableDiagnostics, sinceSignal, diagnosticCollection>>

\* The file read a pass awaits completes, or the pass goes on without an await.
ResumeRun(r) ==
  /\ runs[r].pc \in {"domain", "nlu", "stories", "rules", "evaluating", "routing"}
  /\ Busy => runs[r].pc \in {"evaluating", "routing"}
  /\ runs' = [runs EXCEPT ![r] = ResumePass(runs[r], projectFiles)]
  /\ UNCHANGED <<completionVars, projectFiles, isRasaProjectDetected, disk, edits, pc, files, idx, data, issues,
                 issuesByFile, delivered, enableDiagnostics, crossFileValidationTimer, sinceSignal,
                 passesSinceSignal, diagnosticCollection>>

\* validateProject() has returned its map: runCrossFileValidation() publishes it.
PublishRun(r) ==
  /\ runs[r].pc = "routed"
  /\ diagnosticCollection' = PublishAll(diagnosticCollection, runs[r].issuesByFile)
  /\ delivered' = runs[r].issuesByFile
  /\ runs' = [runs EXCEPT ![r] = IdleRun]
  /\ UNCHANGED <<completionVars, projectFiles, isRasaProjectDetected, disk, edits, pc, files, idx, data, issues,
                 issuesByFile, enableDiagnostics, crossFileValidationTimer, sinceSignal, passesSinceSignal>>

\* The provider is constructed over a project service that has or has not detected a
\* Rasa project, with the diagnostics setting on or off.
InitProvider ==
  /\ projectFiles = ProviderPaths
  /\ isRasaProjectDetected \in BOOLEAN
  /\ disk = [p \in DiskPaths |-> ParseOk(EmptyDoc)]
  /\ edits = 0
  /\ pc = "idle"
  /\ files = <<>>
  /\ idx = 1
  /\ data = NewProjectData
  /\ issues = <<>>
  /\ issuesByFile = EmptyMap
  /\ delivered = EmptyMap
  /\ enableDiagnostics \in BOOLEAN
  /\ crossFileValidationTimer = Undefined
  /\ sinceSignal = QuietIntervalMs
  /\ passesSinceSignal = 0
  /\ runs = [r \in RunIds |-> IdleRun]
  /\ diagnosticCollection = [path \in DiskPaths |-> <<>>]
  /\ CompletionIdle

NextProvider ==
  \/ FileChanged
  \/ FileDeleted
  \/ FileCreated
  \/ Tick
  \/ TimerFires
  \/ \E r \in RunIds : ResumeRun(r)
  \/ \E r \in RunIds : PublishRun(r)

SpecProvider == InitProvider /\ [][NextProvider]_vars

-----------------------------------------------------------------------------
(* The passes of the provider under fair scheduling, over fewer signals:   *)
(* the event loop runs the continuation of a pass once the file read it    *)
(* awaits has completed, and every read completes.                         *)

MaxSignals == 2

ChangedWhileInFlight == FileChangedWithin(MaxSignals)

DeletedWhileInFlight == FileDeletedWithin(MaxSignals)

CreatedWhileInFlight == FileCreatedWithin(MaxSignals)

InitPasses ==
  /\ InitProvider
  /\ enableDiagnostics

NextPasses ==
  \/ ChangedWhileInFlight
  \/ DeletedWhileInFlight
  \/ CreatedWhileInFlight
  \/ Tick
  \/ TimerFires
  \/ \E r \in RunIds : ResumeRun(r)
  \/ \E r \in RunIds : PublishRun(r)

SpecPassesFair ==
  /\ InitPasses
  /\ [][NextPasses]_vars
  /\ \A r \in RunIds : WF_vars(ResumeRun(r)) /\ WF_vars(PublishRun(r))

-----------------------------------------------------------------------------
(* Completion requests over a project with two domain files.  A request    *)
(* is suspended at every parseDomain of its cache refresh; what follows    *)
(* the refresh reads the cache without an await.                            *)

CompletionPaths == <<"config.yml", "domain.yml", "domain/extra.yml", "data/nlu.yml">>

DomainWith(name) == WithItem(EmptyDoc, "intents", Str(name))

\* A request whose refresh is over: it reads its completions from the cache.
Complete(request, cache) == [request EXCEPT !.pc = "done", !.completions = getAllIntents(cache)]

\* provideCompletionItems() is called in an intent context: refreshDomainCache() returns
\* at once while the cache is valid; otherwise it clears the cache and awaits the first
\* domain file.
ProvideCompletionItems(q) ==
  /\ requests[q].pc = "idle"
  /\ \A k \in RequestIds : k < q => requests[k].pc # "idle"
  /\ IF now - lastCacheUpdate < CACHE_VALIDITY_MS
     THEN /\ requests' = [requests EXCEPT ![q] = Complete([@ EXCEPT !.now = now], domainCache)]
          /\ UNCHANGED <<domainCache, lastCacheUpdate>>
     ELSE LET domainFiles == getFilesByType(projectFiles, "domain") IN
            /\ domainCache' = EmptyMap
            /\ IF domainFiles = <<>>
               THEN /\ lastCacheUpdate' = now
                    /\ requests' = [requests EXCEPT ![q] = Complete([@ EXCEPT !.now = now], EmptyMap)]
               ELSE /\ requests' = [requests EXCEPT ![q] = [@ EXCEPT !.pc = "refreshing", !.now = now,
                                                                   !.files = domainFiles, !.idx = 1]]
                    /\ UNCHANGED lastCacheUpdate
  /\ UNCHANGED <<providerVars, projectFiles, isRasaProjectDetected, disk, edits, pc, files, idx, data,
                 issues, issuesByFile, delivered, now>>

\* The parseDomain a refresh awaits completes: the domain is cached when the parse
\* succeeded; after the last file the time of the refresh is stored and the request goes on.
ResumeRefresh(q) ==
  /\ requests[q].pc = "refreshing"
  /\ LET request == requests[q]
         path == request.files[request.idx]
         result == parseFile(path)
         cache == IF result.success /\ Truthy(result.data)
                  THEN CacheSet(domainCache, path, result.data) ELSE domainCache
     IN /\ domainCache' = cache
        /\ IF request.idx < Len(request.files)
           THEN /\ requests' = [requests EXCEPT ![q] = [@ EXCEPT !.idx = @ + 1]]
                /\ UNCHANGED lastCacheUpdate
           ELSE /\ lastCacheUpdate' = request.now
                /\ requests' = [requests EXCEPT ![q] = Complete(@, cache)]
  /\ UNCHANGED <<providerVars, projectFiles, isRasaProjectDetected, disk, edits, pc, files, idx, data,
                 issues, issuesByFile, delivered, now>>

\* Time passes, by the validity period of the cache.
ClockAdvances ==
  /\ now < CACHE_VALIDITY_MS * MaxRequests
  /\ now' = now + CACHE_VALIDITY_MS
  /\ UNCHANGED <<providerVars, projectFiles, isRasaProjectDetected, disk, edits, pc, files, idx, data,
                 issues, issuesByFile, delivered, domainCache, lastCacheUpdate, requests>>

InitCompletion ==
  /\ projectFiles = CompletionPaths
  /\ isRasaProjectDetected = TRUE
  /\ disk \in {[p \in DiskPaths |->
                  IF p = fsPath("domain.yml") THEN ParseOk(DomainWith("book"))
                  ELSE IF p = fsPath("domain/extra.yml") THEN extra
                  ELSE ParseOk(EmptyDoc)] : extra \in {ParseOk(DomainWith("city")), ParseFailed}}
  /\ edits = 0
  /\ pc = "idle"
  /\ files = <<>>
  /\ idx = 1
  /\ data = NewProjectData
  /\ issues = <<>>
  /\ issuesByFile = EmptyMap
  /\ delivered = EmptyMap
  /\ ProviderIdle
  /\ CompletionIdle

NextCompletion ==
  \/ \E q \in RequestIds : ProvideCompletionItems(q)
  \/ \E q \in RequestIds : ResumeRefresh(q)
  \/ ClockAdvances

SpecCompletion == InitCompletion /\ [][NextCompletion]_vars

-----------------------------------------------------------------------------
(* What the files on disk say, read off the documents themselves *)

\* The pass has grouped its issues and has not yet returned them.
Routed == pc = "routed" /\ isRasaProjectDetected

Parsed(path) == disk[path].success /\ disk[path].data # Undefined

DomainFilesKnown == {fsPath(p) : p \in {q \in Members(projectFiles) : startsWith(q, "domain")}}
NLUFilesKnown == {fsPath(p) : p \in {q \in Members(projectFiles) : includes(q, "nlu")}}
StoryFilesKnown == {fsPath(p) : p \in {q \in Members(projectFiles) : includes(q, "stories")}}
RuleFilesKnown == {fsPath(p) : p \in {q \in Members(projectFiles) : includes(q, "rules")}}

ItemsOf(path, field) ==
  IF Parsed(path) /\ disk[path].data[field].t = "array" THEN Members(disk[path].data[field].items) ELSE {}

KeysOf(path, field) ==
  IF Parsed(path) /\ disk[path].data[field].t = "object" THEN Members(disk[path].data[field].keys) ELSE {}

\* Names a list of plain names or single-key objects declares.
ListNamesOf(path, field) ==
  {e.v : e \in {x \in ItemsOf(path, field) : x.t = "string"}}
    \cup {e.keys[1] : e \in {x \in ItemsOf(path, field) : x.t = "object" /\ Len(x.keys) = 1}}

IntentsDeclaredIn(path) == IF path \in DomainFilesKnown THEN ListNamesOf(path, "intents") ELSE {}
SlotsDeclaredIn(path) == IF path \in DomainFilesKnown THEN KeysOf(path, "slots") ELSE {}
ResponsesDeclaredIn(path) == IF path \in DomainFilesKnown THEN KeysOf(path, "responses") ELSE {}

DeclaredIntents == UNION {IntentsDeclaredIn(p) : p \in DomainFilesKnown}
DeclaredSlots == UNION {SlotsDeclaredIn(p) : p \in DomainFilesKnown}
DeclaredResponses == UNION {ResponsesDeclaredIn(p) : p \in DomainFilesKnown}
DeclaredActions == UNION {ListNamesOf(p, "actions") : p \in DomainFilesKnown}
DeclaredForms == UNION {KeysOf(p, "forms") : p \in DomainFilesKnown}

TrainedIntents ==
  UNION {{item.intent.v : item \in {x \in ItemsOf(p, "nlu") : x.intent.t = "string"}} : p \in NLUFilesKnown}

\* Every entry of the step lists of a file, and the entries that are steps.
StepEntriesIn(path, field) ==
  UNION {Members(flow.steps.items) : flow \in {f \in ItemsOf(path, field) : f.steps.t = "array"}}

StepsIn(path, field) == {st \in StepEntriesIn(path, field) : st.t = "object"}

StepsOnDisk ==
  UNION {StepsIn(p, "stories") : p \in StoryFilesKnown} \cup UNION {StepsIn(p, "rules") : p \in RuleFilesKnown}

SlotKeysOf(v) ==
  IF v.t = "object" THEN Members(v.keys)
  ELSE IF v.t = "array" THEN UNION {Members(o.keys) : o \in {x \in Members(v.items) : x.t = "object"}}
  ELSE {}

StepIntents == {st.intent.v : st \in {x \in StepsOnDisk : x.intent.t = "string"}}
StepActions == {st.action.v : st \in {x \in StepsOnDisk : x.action.t = "string"}}
StepForms == {st.active_loop.v : st \in {x \in StepsOnDisk : x.active_loop.t = "string"}}
StepSlots == UNION {SlotKeysOf(st.slot_was_set) : st \in StepsOnDisk}
NullLoopSteps == {st \in StepsOnDisk : st.active_loop = Null}

\* The slots the forms of a domain file list under required_slots.
RequiredSlotsIn(path) ==
  IF Parsed(path) /\ disk[path].data.forms.t = "object" /\ "values" \in DOMAIN disk[path].data.forms
  THEN UNION {Members(body.values[1].items) :
                body \in {b \in Members(disk[path].data.forms.values) : b.t = "object"}}
  ELSE {}

RequiredSlots == {s.v : s \in UNION {RequiredSlotsIn(p) : p \in DomainFilesKnown}}

BuiltInNames == Members(builtInActions)

\* The six kinds of definitions, named by their field of the domain and of ProjectData.
Kinds == {"intents", "entities", "slots", "responses", "actions", "forms"}

\* The ProjectData map recording the files of a kind; forms have none.
FileMapOf(kind) ==
  CASE kind = "intents" -> "intentFiles"
    [] kind = "entities" -> "entityFiles"
    [] kind = "slots" -> "slotFiles"
    [] kind = "responses" -> "responseFiles"
    [] kind = "actions" -> "actionFiles"
    [] OTHER -> ""

DeclaredIn(path, kind) ==
  IF path \notin DomainFilesKnown THEN {}
  ELSE IF kind \in {"intents", "entities", "actions"} THEN ListNamesOf(path, kind)
  ELSE KeysOf(path, kind)

DeclaredOf(kind) == UNION {DeclaredIn(p, kind) : p \in DomainFilesKnown}

DeclaringFiles(kind, n) == {p \in DomainFilesKnown : n \in DeclaredIn(p, kind)}

\* The files the pass's catalog records for a name of a kind.
RecordedFiles(kind, n) ==
  IF FileMapOf(kind) \in DOMAIN data /\ MapHas(data[FileMapOf(kind)], Str(n))
  THEN Members(data[FileMapOf(kind)][Str(n)])
  ELSE {}

Occurrences(s, x) == Cardinality({i \in 1..Len(s) : s[i] = x})

B(cond) == IF cond THEN 1 ELSE 0

\* How many issues the rules give a name, by what the files declare and use.
IssuesDue(n) ==
  B(n \in StepIntents \ DeclaredIntents)
    + B(n \in StepActions \ BuiltInNames
          /\ IF startsWith(n, "utter_") THEN n \notin DeclaredResponses
             ELSE n \notin DeclaredActions \cup DeclaredForms)
    + B(n \in StepSlots \ DeclaredSlots)
    + B(n \in StepForms \ DeclaredForms)
    + B(n \in DeclaredIntents \ TrainedIntents)
    + B(n \in DeclaredResponses \ StepActions)
    + B(n \in DeclaredSlots \ StepSlots)

\* The list without its repeated paths, in the order of first occurrence.
Once(list) == SetAddAll(<<>>, list)

\* The domain loop has run over a list handed to it and the list is still at hand.
Aggregated == pc \in {"evaluating", "routing", "routed"} /\ files # <<>>

\* The files of the four buckets whose parse fails.
FailedFiles ==
  {p \in DomainFilesKnown \cup NLUFilesKnown \cup StoryFilesKnown \cup RuleFilesKnown : ~disk[p].success}

StrSet(names) == {Str(n) : n \in names}

\* The issues of the map the caller holds from the pass before.
DeliveredIssues == UNION {Members(delivered[path]) : path \in DOMAIN delivered}

Reported(type, n) == \E i \in DeliveredIssues : i.type = type /\ i.itemName = Str(n)

ReportedDead(n) ==
  \E i \in DeliveredIssues :
    i.type = "unused-intent" /\ i.itemName = Str(n) /\ i.message = DeadIntentMessage(Str(n))

IssuesAbout(n) == Cardinality({i \in 1..Len(issues) : issues[i].itemName = Str(n)})

IssueSet == Members(issues)
IssueNames == {jsString(i.itemName) : i \in IssueSet}

AllNames ==
  DeclaredIntents \cup DeclaredSlots \cup DeclaredResponses \cup DeclaredActions \cup DeclaredForms
    \cup TrainedIntents \cup StepIntents \cup StepActions \cup StepForms \cup StepSlots \cup IssueNames

\* How many issues of the list have this type and this name.
Count(type, name) ==
  Cardinality({i \in 1..Len(issues) : issues[i].type = type /\ issues[i].itemName = Str(name)})

\* How many issues of the list have this type, this name and this message.
CountMessage(type, name, message) ==
  Cardinality({i \in 1..Len(issues) :
                 issues[i].type = type /\ issues[i].itemName = Str(name) /\ issues[i].message = message})

\* The issue is in the list the returned map holds for the file.
AttachedTo(issue, path) == path \in DOMAIN issuesByFile /\ Has(issuesByFile[path], issue)


-----------------------------------------------------------------------------
(* Claims *)

\* C1 as stated: every intent name of an NLU training item or of an intent step that
\* no parsed domain file declares has exactly one undefined-intent Error, and a
\* declared intent name has none.
C1_AsStated ==
  Routed =>
    \A n \in AllNames :
      /\ (n \in (TrainedIntents \cup StepIntents) \ DeclaredIntents => Count("undefined-intent", n) = 1)
      /\ (n \in DeclaredIntents => Count("undefined-intent", n) = 0)

\* C1 (amended): every intent name of an intent step of a story or rule that no parsed
\* domain file declares has exactly one undefined-intent issue, of severity Error; a
\* declared name, and a name that only NLU training items use, has none.
C1_UndefinedIntent ==
  Routed =>
    /\ \A n \in AllNames :
         Count("undefined-intent", n) = IF n \in StepIntents \ DeclaredIntents THEN 1 ELSE 0
    /\ \A i \in IssueSet : i.type = "undefined-intent" => i.severity = "Error"

\* C1 witness: an undeclared intent that both an NLU item and a step use has its one issue.
C1_Witness ==
  /\ Routed
  /\ \E n \in (TrainedIntents \cap StepIntents) \ DeclaredIntents : Count("undefined-intent", n) = 1


\* C2 as stated: a non-built-in name of an action step has an undefined-response Error
\* exactly when it starts with utter_ and no domain file declares it as a response, and
\* otherwise an undefined-action Error exactly when it is neither a declared action nor
\* a declared form.
C2_AsStated ==
  Routed =>
    \A n \in StepActions \ BuiltInNames :
      IF startsWith(n, "utter_")
      THEN Count("undefined-response", n) >= 1 <=> n \notin DeclaredResponses
      ELSE Count("undefined-action", n) >= 1 <=> (n \notin DeclaredActions /\ n \notin DeclaredForms)

\* C2 (amended): a non-built-in name of an action step has an undefined-response Error
\* exactly when it starts with utter_ and is no declared response, whatever actions and
\* forms declare; otherwise it has the action rule's undefined-action Error exactly when
\* it is neither a declared action nor a declared form. Any other undefined-action Error
\* for the name is the active_loop rule's, which reports under the same kind, and is
\* there exactly when the name is also an active_loop form that is not declared.
C2_DualKind ==
  Routed =>
    \A n \in StepActions \ BuiltInNames :
      /\ \A i \in IssueSet :
           i.itemName = Str(n) /\ i.type \in {"undefined-response", "undefined-action"} => i.severity = "Error"
      /\ IF startsWith(n, "utter_")
         THEN /\ Count("undefined-response", n) >= 1 <=> n \notin DeclaredResponses
              /\ CountMessage("undefined-action", n, UndefinedActionMessage(Str(n))) = 0
         ELSE /\ CountMessage("undefined-action", n, UndefinedActionMessage(Str(n))) >= 1
                   <=> (n \notin DeclaredActions /\ n \notin DeclaredForms)
              /\ Count("undefined-response", n) = 0
      /\ Count("undefined-action", n) - CountMessage("undefined-action", n, UndefinedActionMessage(Str(n)))
           = IF n \in StepForms \ DeclaredForms THEN 1 ELSE 0
      /\ Count("undefined-action", n) - CountMessage("undefined-action", n, UndefinedActionMessage(Str(n)))
           = CountMessage("undefined-action", n, UndefinedFormMessage(Str(n)))

\* C2 witness: an utter_ name declared under actions and forms but not under responses is
\* used in an action step and has its undefined-response Error.
C2_Witness ==
  /\ Routed
  /\ "utter_book" \in StepActions
  /\ "utter_book" \in DeclaredActions \cap DeclaredForms
  /\ "utter_book" \notin DeclaredResponses
  /\ Count("undefined-response", "utter_book") = 1

\* C3: an action step naming a built-in action yields no undefined-action and no
\* undefined-response issue, whatever the domain declares: the only such issue a built-in
\* name can have is the one an active_loop step naming it yields.
C3_BuiltInExempt ==
  Routed =>
    \A b \in BuiltInNames \cap StepActions :
      \A i \in IssueSet :
        i.itemName = Str(b) /\ i.type \in {"undefined-action", "undefined-response"}
          => (i.message = UndefinedFormMessage(Str(b)) /\ b \in StepForms)

\* C3 witness: with nothing declared, a story names a built-in action other than
\* action_listen and the pass finds no issue.
C3_Witness ==
  /\ Routed
  /\ DeclaredActions \cup DeclaredForms \cup DeclaredResponses = {}
  /\ "action_unlikely_intent" \in StepActions
  /\ issues = <<>>

\* C4: every undefined-* issue is in the issue list of every story file and every rule
\* file the project knows, and in the list of no other file.
C4_UndefinedRouting ==
  Routed =>
    \A i \in IssueSet :
      startsWith(i.type, "undefined-") =>
        \A path \in DiskPaths \cup DOMAIN issuesByFile :
          AttachedTo(i, path) <=> path \in StoryFilesKnown \cup RuleFilesKnown

\* C4 witness: an issue that only the stories file causes is attached to the rules file
\* too, and to no domain file.
C4_Witness ==
  /\ Routed
  /\ StepsIn(fsPath("data/rules.yml"), "rules") = {}
  /\ \E i \in IssueSet :
       /\ startsWith(i.type, "undefined-")
       /\ AttachedTo(i, fsPath("data/rules.yml"))
       /\ AttachedTo(i, fsPath("data/stories.yml"))
       /\ ~AttachedTo(i, fsPath("domain.yml"))

\* The file declares the name the unused-* issue is about.
Declares(path, i) ==
  CASE i.type = "unused-intent" -> jsString(i.itemName) \in IntentsDeclaredIn(path)
    [] i.type = "unused-response" -> jsString(i.itemName) \in ResponsesDeclaredIn(path)
    [] i.type = "unused-slot" -> jsString(i.itemName) \in SlotsDeclaredIn(path)
    [] OTHER -> path \in DomainFilesKnown /\ jsString(i.itemName) \in ListNamesOf(path, "entities")

\* C5: every unused-* issue is in the issue list of exactly the domain files that declare
\* its name.
C5_UnusedRouting ==
  Routed =>
    \A i \in IssueSet :
      startsWith(i.type, "unused-") =>
        \A path \in DiskPaths \cup DOMAIN issuesByFile : AttachedTo(i, path) <=> Declares(path, i)

\* C5 witness: a response two domain files declare is unused; its issue is attached to both.
C5_Witness ==
  /\ Routed
  /\ "utter_book" \in ResponsesDeclaredIn(fsPath("domain.yml")) \cap ResponsesDeclaredIn(fsPath("domain/extra.yml"))
  /\ \E i \in IssueSet :
       /\ i.type = "unused-response"
       /\ AttachedTo(i, fsPath("domain.yml"))
       /\ AttachedTo(i, fsPath("domain/extra.yml"))


\* The unused-intent issues of a name, and those with a given message.
UnusedIntentIssuesOf(n) == {i \in IssueSet : i.type = "unused-intent" /\ i.itemName = Str(n)}

\* C6 as stated: every declared intent without an NLU training item has the
\* no-training-data Warning, used in a flow or not; when a flow uses it, that warning is
\* its only intent issue.
C6_AsStated ==
  Routed =>
    \A n \in DeclaredIntents \ TrainedIntents :
      /\ \E i \in UnusedIntentIssuesOf(n) : i.message = NoTrainingMessage(Str(n)) /\ i.severity = "Warning"
      /\ n \in StepIntents => (Count("unused-intent", n) = 1 /\ Count("undefined-intent", n) = 0)

\* C6 (amended): every declared intent without an NLU training item has exactly one
\* unused-intent Warning and no undefined-intent issue; the warning is the
\* no-training-data one when a story or rule uses the intent, and the dead-definition one
\* when none does.
C6_NoTrainingData ==
  Routed =>
    \A n \in DeclaredIntents \ TrainedIntents :
      /\ Count("unused-intent", n) = 1
      /\ Count("undefined-intent", n) = 0
      /\ \A i \in UnusedIntentIssuesOf(n) :
           /\ i.severity = "Warning"
           /\ i.message = IF n \in StepIntents THEN NoTrainingMessage(Str(n)) ELSE DeadIntentMessage(Str(n))

\* C6 witness: a declared intent that a step uses and no NLU item trains has its warning.
C6_Witness ==
  /\ Routed
  /\ \E n \in (DeclaredIntents \cap StepIntents) \ TrainedIntents :
       \E i \in UnusedIntentIssuesOf(n) : i.message = NoTrainingMessage(Str(n))

\* C7 as stated: every declared intent with neither an NLU training item nor a use in a
\* flow has two unused-intent Warnings, the no-training-data one and the dead-definition
\* one, both attached to the declaring files.
C7_AsStated ==
  Routed =>
    \A n \in DeclaredIntents \ (TrainedIntents \cup StepIntents) :
      /\ Count("unused-intent", n) = 2
      /\ CountMessage("unused-intent", n, NoTrainingMessage(Str(n))) = 1
      /\ CountMessage("unused-intent", n, DeadIntentMessage(Str(n))) = 1
      /\ \A i \in UnusedIntentIssuesOf(n) :
           \A path \in DomainFilesKnown : n \in IntentsDeclaredIn(path) => AttachedTo(i, path)

\* C7 (amended): every declared intent with neither an NLU training item nor a use in a
\* flow has exactly one unused-intent Warning, the dead-definition one, and no
\* no-training-data warning; it is attached to every declaring domain file.
C7_DeadDefinition ==
  Routed =>
    \A n \in DeclaredIntents \ (TrainedIntents \cup StepIntents) :
      /\ Count("unused-intent", n) = 1
      /\ CountMessage("unused-intent", n, DeadIntentMessage(Str(n))) = 1
      /\ CountMessage("unused-intent", n, NoTrainingMessage(Str(n))) = 0
      /\ \A i \in UnusedIntentIssuesOf(n) :
           /\ i.severity = "Warning"
           /\ \A path \in DomainFilesKnown : n \in IntentsDeclaredIn(path) => AttachedTo(i, path)

\* C7 witness: an intent two domain files declare, never trained and never used, has its
\* warning in both files.
C7_Witness ==
  /\ Routed
  /\ \E n \in DeclaredIntents \ (TrainedIntents \cup StepIntents) :
       /\ n \in IntentsDeclaredIn(fsPath("domain.yml")) \cap IntentsDeclaredIn(fsPath("domain/extra.yml"))
       /\ \E i \in UnusedIntentIssuesOf(n) :
            AttachedTo(i, fsPath("domain.yml")) /\ AttachedTo(i, fsPath("domain/extra.yml"))

\* C8 as stated: every form name of a non-null active_loop step that is no declared form
\* has exactly one Error issue of kind undefined-form, one of the nine issue kinds.
C8_AsStated ==
  Routed =>
    \A n \in StepForms \ DeclaredForms :
      /\ "undefined-form" \in IssueTypes
      /\ Count("undefined-form", n) = 1

\* C8 (amended): every form name of a non-null active_loop step that is no declared form
\* has exactly one issue carrying the active_loop message, of severity Error; its kind is
\* undefined-action, the kind the action rule uses too: the nine issue kinds hold no
\* undefined-form.
C8_UndefinedForm ==
  /\ Cardinality(IssueTypes) = 9
  /\ "undefined-form" \notin IssueTypes
  /\ Routed =>
       /\ \A i \in IssueSet : i.type \in IssueTypes
       /\ \A n \in AllNames :
            /\ CountMessage("undefined-action", n, UndefinedFormMessage(Str(n)))
                 = IF n \in StepForms \ DeclaredForms THEN 1 ELSE 0
            /\ \A i \in IssueSet :
                 i.message = UndefinedFormMessage(Str(n)) => (i.type = "undefined-action" /\ i.severity = "Error")

\* C8 witness: a name used in an action step and in an active_loop step, declared
\* nowhere, has two undefined-action issues, one of them the form's.
C8_Witness ==
  /\ Routed
  /\ \E n \in (StepForms \cap StepActions) \ (DeclaredForms \cup DeclaredActions) :
       /\ Count("undefined-action", n) = 2
       /\ CountMessage("undefined-action", n, UndefinedFormMessage(Str(n))) = 1

\* The active_loop names of the steps of the known files of one kind.
LoopNamesIn(known, field) ==
  UNION {{Str(st.active_loop.v) : st \in {x \in StepsIn(p, field) : x.active_loop.t = "string"}} : p \in known}

\* C9: a step with active_loop: null records no form usage and causes no issue, and a step
\* whose active_loop is a form name records that name: the form usages of the pass are
\* exactly the names of the non-null active_loop steps.
C9_NullActiveLoop ==
  Routed =>
    /\ Members(data.storyForms) = LoopNamesIn(StoryFilesKnown, "stories")
    /\ Members(data.ruleForms) = LoopNamesIn(RuleFilesKnown, "rules")
    /\ \A i \in IssueSet : i.itemName # Null /\ i.message # UndefinedFormMessage(Null)

\* C9 witness: a flow holds an active_loop: null step and an active_loop step naming a form.
C9_Witness ==
  /\ Routed
  /\ NullLoopSteps # {}
  /\ Str("book") \in Members(data.storyForms) \cup Members(data.ruleForms)

\* C10: every key of a slot_was_set field, a mapping or a list of mappings, that is no
\* declared slot has exactly one undefined-slot issue, of severity Error; a declared slot
\* has none.
C10_UndefinedSlot ==
  Routed =>
    /\ \A n \in AllNames :
         Count("undefined-slot", n) = IF n \in StepSlots \ DeclaredSlots THEN 1 ELSE 0
    /\ \A i \in IssueSet : i.type = "undefined-slot" => i.severity = "Error"

\* C10 witness: a list of two mappings sets a declared slot and an undeclared one: only
\* the undeclared key has an issue.
C10_Witness ==
  /\ Routed
  /\ \E st \in StepsOnDisk : st.slot_was_set.t = "array" /\ Len(st.slot_was_set.items) = 2
  /\ "book" \in StepSlots \cap DeclaredSlots
  /\ Count("undefined-slot", "book") = 0
  /\ Count("undefined-slot", "city") = 1

\* C11: a declared response has exactly one unused-response issue, of severity
\* Information, when no action step of any story or rule names it, and none when one
\* does; no other name has an unused-response issue.
C11_UnusedResponse ==
  Routed =>
    /\ \A n \in AllNames :
         Count("unused-response", n) = IF n \in DeclaredResponses \ StepActions THEN 1 ELSE 0
    /\ \A i \in IssueSet : i.type = "unused-response" => i.severity = "Information"

\* C11 witness: a response two domain files declare, named by no step, has its one issue.
C11_Witness ==
  /\ Routed
  /\ "utter_book" \in ResponsesDeclaredIn(fsPath("domain.yml")) \cap ResponsesDeclaredIn(fsPath("domain/extra.yml"))
  /\ "utter_book" \notin StepActions
  /\ Count("unused-response", "utter_book") = 1

\* C12: a declared slot has exactly one unused-slot issue when it is a key of no
\* slot_was_set field of any story or rule, and none when it is one; a form listing the
\* slot under required_slots changes nothing.
C12_UnusedSlot ==
  Routed =>
    \A n \in AllNames \cup RequiredSlots :
      Count("unused-slot", n) = IF n \in DeclaredSlots \ StepSlots THEN 1 ELSE 0

\* C12 witness: a declared slot that a form requires and no flow sets has its issue.
C12_Witness ==
  /\ Routed
  /\ "book" \in (DeclaredSlots \cap RequiredSlots) \ StepSlots
  /\ Count("unused-slot", "book") = 1

\* C13 as stated: a name of any of the six kinds that two or more domain files declare
\* is in the catalog once, with exactly those files recorded as its declaring files, and
\* has no issue but the ones the rules give a name declared once.
C13_AsStated ==
  Routed =>
    \A kind \in Kinds : \A n \in DeclaredOf(kind) :
      Cardinality(DeclaringFiles(kind, n)) >= 2 =>
        /\ Occurrences(data[kind], Str(n)) = 1
        /\ RecordedFiles(kind, n) = DeclaringFiles(kind, n)
        /\ IssuesAbout(n) = IssuesDue(n)

\* C13 (amended): a name that two or more domain files declare is in the catalog once
\* and has no issue but the ones the rules give a name declared once; for an intent,
\* entity, slot, response or action the files recorded for it are exactly the declaring
\* files, and for a form no file is recorded: the catalog has no file map for forms.
C13_SplitDeclaration ==
  /\ FileMapOf("forms") \notin DOMAIN NewProjectData
  /\ Routed =>
       /\ \A i \in IssueSet : i.type \in IssueTypes
       /\ \A kind \in Kinds : \A n \in DeclaredOf(kind) :
            Cardinality(DeclaringFiles(kind, n)) >= 2 =>
              /\ Occurrences(data[kind], Str(n)) = 1
              /\ RecordedFiles(kind, n) = IF kind = "forms" THEN {} ELSE DeclaringFiles(kind, n)
              /\ IssuesAbout(n) = IssuesDue(n)

\* C13 witness: both domain files declare the same intent; the catalog records both
\* files for its one entry and the pass has the one unused-intent issue for it.
C13_Witness ==
  /\ Routed
  /\ Cardinality(DeclaringFiles("intents", "book")) = 2
  /\ Occurrences(data.intents, Str("book")) = 1
  /\ RecordedFiles("intents", "book") = {fsPath("domain.yml"), fsPath("domain/extra.yml")}
  /\ Len(issues) = 1

C15_SplitEquivalence ==
  Routed =>
    \A kind \in Kinds :
      /\ Members(data[kind]) = {Str(n) : n \in DeclaredOf(kind)}
      /\ \A n \in DeclaredOf(kind) : Occurrences(data[kind], Str(n)) = 1

\* C15 witness: the slot is declared in one domain file and the intent in the other; the
\* catalog holds both, as it would had one file declared both.
C15_Witness ==
  /\ Routed
  /\ DeclaringFiles("slots", "book") = {fsPath("domain.yml")}
  /\ DeclaringFiles("intents", "book") = {fsPath("domain/extra.yml")}
  /\ data.slots = <<Str("book")>>
  /\ data.intents = <<Str("book")>>

\* C16: a file whose parse fails adds nothing to the pass: the catalog and the usage sets
\* are what the files that parse declare and use, and the issues returned are the ones
\* that follow from those files.
C16_ParseFailure ==
  Routed =>
    /\ \A kind \in Kinds : Members(data[kind]) = StrSet(DeclaredOf(kind))
    /\ Members(data.nluIntents) = StrSet(TrainedIntents)
    /\ Members(data.storyIntents) \cup Members(data.ruleIntents) = StrSet(StepIntents)
    /\ Members(data.storyActions) \cup Members(data.ruleActions) = StrSet(StepActions)
    /\ Members(data.storySlots) \cup Members(data.ruleSlots) = StrSet(StepSlots)
    /\ Members(data.storyForms) \cup Members(data.ruleForms) = StrSet(StepForms)
    /\ \A n \in AllNames : IssuesAbout(n) = IssuesDue(n)
    /\ \A i \in IssueSet : jsString(i.itemName) \in AllNames

\* C16 witness: the stories file and a domain file fail to parse; the undeclared intent of
\* the rules file still has its undefined-intent issue, attached to both flow files.
C16_Witness ==
  /\ Routed
  /\ {fsPath("data/stories.yml"), fsPath("domain/extra.yml")} \subseteq FailedFiles
  /\ "book" \in StepIntents \ DeclaredIntents
  /\ Count("undefined-intent", "book") = 1
  /\ \E i \in IssueSet : AttachedTo(i, fsPath("data/stories.yml")) /\ AttachedTo(i, fsPath("data/rules.yml"))

\* The value validateProject() resolves to: a map from file paths to lists of issues.
IsIssueMap(m) ==
  \A path \in DOMAIN m :
    /\ path \in DiskPaths
    /\ \A k \in 1..Len(m[path]) : m[path][k].type \in IssueTypes

\* C17: validateProject() never rejects and can always go on to its return: no call
\* leaves an error uncaught, every parse loop has a file to await, and the value returned
\* is a map from paths to issue lists, in every pass of any sequence of passes and edits.
C17_NeverRejects ==
  /\ pc \in {"idle", "domain", "nlu", "stories", "rules", "evaluating", "routing", "routed"}
  /\ ~data.thrown
  /\ pc \in {"domain", "nlu", "stories", "rules"} => (idx \in 1..Len(files) /\ files[idx] \in DOMAIN disk)
  /\ pc = "routed" => IsIssueMap(issuesByFile)

\* C17 witness: a pass over a project with an unreadable domain file and a story whose
\* action name is a number has reached its return, with the empty map.
C17_Witness ==
  /\ Routed
  /\ ~disk[fsPath("domain.yml")].success
  /\ detectIssuesThrows(data)
  /\ issuesByFile = EmptyMap

\* C18 as stated: an unexpected shape in the stories file costs that file's contribution
\* only: the issues that follow from the domain files and from the rules file are still
\* returned, the unused-intent warning of a declared intent without training data and
\* the undefined-intent error of an undeclared intent of a rule.
C18_AsStated ==
  Routed =>
    /\ \A n \in DeclaredIntents \ TrainedIntents : Count("unused-intent", n) = 1
    /\ \A st \in StepsIn(fsPath("data/rules.yml"), "rules") :
         (st.intent.t = "string" /\ st.intent.v \notin DeclaredIntents)
           => Count("undefined-intent", st.intent.v) = 1

\* C19 as stated: an intent or entity entry that is an object with no key or with more
\* than one key adds no name to the catalog; an object with one key adds its key, the name
\* a plain string adds: the catalog holds the plain names and the single keys, no more.
C19_AsStated ==
  Routed =>
    \A kind \in {"intents", "entities"} : Members(data[kind]) = StrSet(DeclaredOf(kind))

\* C20 as stated: a name the pass before reported as unused, an intent as a dead
\* definition, has no unused-* issue of its kind in this pass once the files hold a usage
\* of it: an NLU item or an intent step for an intent, an action step for a response, a
\* slot_was_set key for a slot.
C20_AsStated ==
  Routed =>
    \A n \in AllNames :
      /\ (ReportedDead(n) /\ n \in TrainedIntents \cup StepIntents) => Count("unused-intent", n) = 0
      /\ (Reported("unused-response", n) /\ n \in StepActions) => Count("unused-response", n) = 0
      /\ (Reported("unused-slot", n) /\ n \in StepSlots) => Count("unused-slot", n) = 0

\* C20 (amended): every pass builds its catalog and usage sets from the files as they
\* are, and its unused-* issues follow from them alone. A response the pass before
\* reported as unused has no unused-response issue once an action step names it, a slot
\* none once a slot_was_set field has it as key, an intent none once an NLU item trains
\* it; an intent reported as a dead definition that gains only a story or rule usage
\* keeps one unused-intent warning, the no-training-data one.
C20_RoundTrip ==
  Routed =>
    /\ \A kind \in Kinds : Members(data[kind]) = StrSet(DeclaredOf(kind))
    /\ Members(data.nluIntents) = StrSet(TrainedIntents)
    /\ Members(data.storyIntents) \cup Members(data.ruleIntents) = StrSet(StepIntents)
    /\ Members(data.storyActions) \cup Members(data.ruleActions) = StrSet(StepActions)
    /\ Members(data.storySlots) \cup Members(data.ruleSlots) = StrSet(StepSlots)
    /\ \A n \in AllNames :
         /\ Count("unused-intent", n) = B(n \in DeclaredIntents \ TrainedIntents)
         /\ Count("unused-response", n) = B(n \in DeclaredResponses \ StepActions)
         /\ Count("unused-slot", n) = B(n \in DeclaredSlots \ StepSlots)
         /\ (Reported("unused-response", n) /\ n \in StepActions) => Count("unused-response", n) = 0
         /\ (Reported("unused-slot", n) /\ n \in StepSlots) => Count("unused-slot", n) = 0
         /\ (ReportedDead(n) /\ n \in TrainedIntents) => Count("unused-intent", n) = 0
         /\ (ReportedDead(n) /\ n \in StepIntents \ TrainedIntents)
              => (Count("unused-intent", n) = 1
                  /\ CountMessage("unused-intent", n, NoTrainingMessage(Str(n))) = 1)

\* C20 witness: the pass before reported the response as unused; since then a story names
\* it in an action step, and this pass has no unused-response issue for it.
C20_Witness ==
  /\ Routed
  /\ Reported("unused-response", "utter_book")
  /\ "utter_book" \in StepActions
  /\ "utter_book" \in DeclaredResponses
  /\ Count("unused-response", "utter_book") = 0

\* C24: when no Rasa project is detected, a call of validateProject() goes straight to
\* its return with the empty map: no parse loop is entered, no file is parsed into the
\* ProjectData, no issue is computed, whatever the files of the workspace hold.
C24_NotDetected ==
  [][~isRasaProjectDetected =>
       /\ pc' \in {"idle", "routed"}
       /\ (pc = "idle" /\ pc' # pc) => pc' = "routed"
       /\ issuesByFile' = EmptyMap
       /\ issues' = <<>>
       /\ data' = NewProjectData]_vars

\* C24 witness: the workspace is no Rasa project, its stories file holds a step that
\* names an undeclared intent, and validateProject() is at its return with the empty map.
C24_Witness ==
  /\ ~isRasaProjectDetected
  /\ pc = "routed"
  /\ issuesByFile = EmptyMap
  /\ \E st \in StepsIn(fsPath("data/stories.yml"), "stories") : st.intent = Str("book")

\* C28 as stated: in the map validateProject() returns, no file's issue list holds the
\* same issue more than once, also when a domain file declares a name more than once.
C28_AsStated ==
  pc = "routed" =>
    \A path \in DOMAIN issuesByFile :
      \A i, j \in 1..Len(issuesByFile[path]) :
        i # j => issuesByFile[path][i] # issuesByFile[path][j]

\* The cross-file diagnostics the collection holds for a file.
CrossFileDiagnostics(path) ==
  SelectSeq(diagnosticCollection[path], LAMBDA d : d.source = CrossFileSource)

\* C21 as stated: the results a pass publishes for a file overwrite what earlier passes
\* published for it: a file of the result of the pass that finished last carries no
\* cross-file diagnostic but those of that result, each no more often than the result has it.
C21_AsStated ==
  \A path \in DOMAIN delivered :
    \A d \in Members(CrossFileDiagnostics(path)) :
      Occurrences(CrossFileDiagnostics(path), d)
        <= Occurrences(convertCrossFileIssuesToDiagnostics(delivered[path]), d)

\* C23 as stated: while the setting rasa-pro-vscode.enableDiagnostics is false, the file
\* system signals lead to no cross-file diagnostic in the collection.
C23_AsStated ==
  ~enableDiagnostics => \A path \in DiskPaths : CrossFileDiagnostics(path) = <<>>

\* C27 as stated: a file without an issue in the result of the pass that delivered last
\* carries no cross-file diagnostic: the diagnostic of a reference or definition that has
\* been fixed is gone from every file after the next pass.
C27_AsStated ==
  \A path \in DiskPaths \ DOMAIN delivered : CrossFileDiagnostics(path) = <<>>

\* C22: every file system signal cancels the pending timer and arms a new one, so a
\* pending timer always has the quiet interval less the time since the last signal left;
\* runCrossFileValidation() is called only when the whole quiet interval has passed since
\* the last signal, and at most once after it: signals that follow one another within the
\* interval start one pass, after the last of them.
C22_Debounce ==
  /\ [](Pending(crossFileValidationTimer)
          => crossFileValidationTimer.ms = QuietIntervalMs - sinceSignal)
  /\ [](passesSinceSignal <= 1)
  /\ [](edits > 0 => (passesSinceSignal = 1 \/ Pending(crossFileValidationTimer)))
  /\ [][/\ edits' > edits
           => (Pending(crossFileValidationTimer') /\ crossFileValidationTimer'.ms = QuietIntervalMs
               /\ InFlight(runs') = InFlight(runs))
        /\ InFlight(runs') \ InFlight(runs) # {}
           => (/\ sinceSignal = QuietIntervalMs
               /\ Pending(crossFileValidationTimer)
               /\ ~Pending(crossFileValidationTimer')
               /\ Cardinality(InFlight(runs') \ InFlight(runs)) = 1
               /\ passesSinceSignal = 0)]_vars

\* C22 witness: the stories file and the domain file were saved one after the other
\* within the quiet interval, with diagnostics disabled; one pass has been started since,
\* it is at its first file read, and nothing has been published.
C22_Witness ==
  /\ isRasaProjectDetected
  /\ ~enableDiagnostics
  /\ edits = 2
  /\ disk[fsPath("domain.yml")].data.intents # Undefined
  /\ disk[fsPath("data/stories.yml")].success
  /\ disk[fsPath("data/stories.yml")].data.stories # Undefined
  /\ passesSinceSignal = 1
  /\ Cardinality(InFlight(runs)) = 1
  /\ \A r \in InFlight(runs) : runs[r].pc = "domain"
  /\ \A path \in DiskPaths : diagnosticCollection[path] = <<>>

\* C25: nothing keeps the timer from starting a pass while another one is in flight: every
\* expiry of the timer adds one pass to those in flight, however many there are, and takes
\* none of them away.
C25_NoMutualExclusion ==
  [][(/\ Pending(crossFileValidationTimer)
      /\ crossFileValidationTimer.ms = 0
      /\ ~Pending(crossFileValidationTimer'))
       => /\ Cardinality(InFlight(runs')) = Cardinality(InFlight(runs)) + 1
          /\ \A r \in InFlight(runs) : runs'[r] = runs[r]]_vars

\* C25 witness: two passes are in flight, the one started first suspended on the read of
\* the stories file, the newer one on the read of the domain file; neither has delivered.
C25_Witness ==
  \E r1, r2 \in RunIds :
    /\ r1 # r2
    /\ runs[r1].pc = "stories"
    /\ runs[r2].pc = "domain"

\* C29 as stated: in a pass at its return, every undefined-* issue is attached to exactly
\* the story and rule files the pass has read, whatever creations and deletions changed
\* the file cache while the pass was suspended; so every such issue is attached to a file.
C29_AsStated ==
  \A r \in RunIds :
    runs[r].pc = "routed" =>
      \A i \in 1..Len(runs[r].issues) :
        runs[r].issues[i].type \in UndefinedTypes =>
          {path \in DOMAIN runs[r].issuesByFile : Has(runs[r].issuesByFile[path], runs[r].issues[i])}
            = Members(runs[r].parsed)

\* The state of the orchestrator a pass is in.
Stage(run) ==
  CASE run.pc = "idle" -> "Idle"
    [] run.pc \in {"domain", "nlu", "stories", "rules"} -> "Aggregating"
    [] run.pc \in {"evaluating", "routing"} -> "Evaluating"
    [] run.pc = "routed" -> "Routed"
    [] OTHER -> "Rejected"

StageOrder ==
  {<<"Idle", "Aggregating">>, <<"Aggregating", "Evaluating">>, <<"Evaluating", "Routed">>,
   <<"Routed", "Idle">>}

\* C26 as stated: every pass goes from Idle to Aggregating, Evaluating, Routed and back
\* to Idle, one after the other.
C26_AsStated ==
  [][\A r \in RunIds :
       Stage(runs'[r]) # Stage(runs[r]) => <<Stage(runs[r]), Stage(runs'[r])>> \in StageOrder]_vars

\* C26 (amended): every pass that starts delivers its map: it goes from Idle to
\* Aggregating, Evaluating, Routed and back to Idle in that order, or, when no Rasa
\* project is detected, from Idle straight to Routed and back to Idle; a file system
\* signal and the start of a newer pass leave every pass in flight as it is, and the step
\* back to Idle hands over the map of the pass.
C26_RunsToCompletion ==
  /\ [][\A r \in RunIds :
          /\ Stage(runs'[r]) # Stage(runs[r])
               => \/ <<Stage(runs[r]), Stage(runs'[r])>> \in StageOrder
                  \/ (~isRasaProjectDetected /\ Stage(runs[r]) = "Idle" /\ Stage(runs'[r]) = "Routed")
          /\ (r \in InFlight(runs) /\ (edits' > edits \/ crossFileValidationTimer' # crossFileValidationTimer))
               => runs'[r] = runs[r]
          /\ (Stage(runs[r]) = "Routed" /\ Stage(runs'[r]) = "Idle")
               => delivered' = runs[r].issuesByFile]_vars
  /\ \A r \in RunIds : (runs[r].pc # "idle") ~> (runs[r].pc = "idle")

\* C26 witness: two passes are in flight after two signals; one of them is at its return
\* with an issue map while the other one is suspended on a file read.
C26_Witness ==
  \E r1, r2 \in RunIds :
    /\ r1 # r2
    /\ runs[r1].pc = "routed"
    /\ runs[r1].issuesByFile # EmptyMap
    /\ runs[r2].pc \in {"domain", "stories", "rules"}

\* The intents of the domain files that parse.
ParsedDomainIntents ==
  UNION {Members(extractIntents(disk[path].data)) :
           path \in {f \in Members(getFilesByType(projectFiles, "domain")) : disk[f].success}}

\* C30 as stated: every completion request that has completed, whatever other requests
\* ran beside it, has computed its completions from a cache that held every domain file
\* that parses: its intent completions are the intents of all of them.
C30_AsStated ==
  \A q \in RequestIds :
    requests[q].pc = "done" => requests[q].completions = ParsedDomainIntents

====
